---- MODULE Spec2Model ----
(***************************************************************************)
(* The recording-transfer pipeline of zoom-sdk-be: the BullMQ queue        *)
(* "zoom-recording-processing" (src/src/queues/recordingQueue.js), the     *)
(* worker that processes its jobs (src/src/workers/recordingWorker.js),    *)
(* the batch upload orchestrator (src/src/services/s3StreamingService.js)  *)
(* and the ZoomMeetings row the worker reconciles into.                    *)
(*                                                                         *)
(* recordingWorker.js holds two revisions of the worker: the database-     *)
(* aware one (lines 22-240) and the simulated one (lines 286-372).  The    *)
(* variable revision says which of them is deployed.  A third, older       *)
(* revision of the handler follows the service in s3StreamingService.js    *)
(* (lines 216-380: no catch block around the batch call, lookup by         *)
(* sessionId, "video" as the primary type, recordingUrl alone updated);    *)
(* it is the value "older" of revision, which the reconciliation           *)
(* specification SpecReconcile admits.                                     *)
(*                                                                         *)
(* A job handler is an async function: it runs without interruption up to  *)
(* each await, so every action below is the code between two awaits.       *)
(***************************************************************************)
EXTENDS Integers, Sequences, FiniteSets, TLC

VARIABLES
  revision,        \* the revision of the worker that is deployed
  jobs,            \* the jobs of the queue, by id
  meetings,        \* the rows of the ZoomMeetings table, by id
  today,           \* the day of the process clock
  bucket,          \* the objects of the S3 bucket: pairs <<key, file id>>
  activeMeetings,  \* the Map activeMeetings of the meeting controller
  requests,        \* the requests to the meeting controller, by arrival
  clock,           \* the time of the process clock, in minutes
  call,            \* the last call of a function of the program, observed
                   \* from outside: its name, its arguments, how it ended
  zoomRecordings   \* global.zoomRecordings, the recordings log of the web
                   \* process

vars ==
  <<revision, jobs, meetings, today, bucket, activeMeetings, requests, clock,
    call, zoomRecordings>>

\* the object store, the day the keys are derived from, and the recordings
\* log
storeVars == <<today, bucket, zoomRecordings>>

\* the meeting controller
trackerVars == <<activeMeetings, requests, clock>>

---------------------------------------------------------------------------
(* Bounds of the model *)

\* jobs added to the queue in the pipeline specification Spec
MaxJobs == 2
\* jobs added to the queue in the queue specification SpecQueue
QueueJobs == 3
\* jobs added to the queue in the shared-row specification SpecShared
SharedJobs == 1

RerunJobs == 2

UploaderJobs == 2
\* requests to the meeting controller in SpecShared
MaxRequests == 1
\* the length of the file names handed to the functions of SpecNames
MaxNameLen == 3
\* jobs added to the queue in the enqueue specification SpecEnqueue
EnqueueJobs == 2
\* jobs added to the queue in the statistics specification SpecStats
StatsJobs == 2
\* jobs added to the queue and days of the cleanup specification SpecCleanup
CleanupJobs == 2
MaxDays == 3
\* jobs added to the queue in the retention specification SpecRetention
RetentionJobs == 101
\* jobs added to the queue in the shutdown specification SpecShutdown
ShutdownJobs == 2
\* requests to the meeting controller and minutes of the clock in the
\* meeting specification SpecMeeting
TrackerRequests == 2
MaxMinutes == 1
\* requests to the meeting controller that are served one after the other
\* in the specification SpecSerial
SerialRequests == 3
\* jobs of the specification of the progress endpoint, SpecProgress
ProgressJobs == 1
\* deliveries to the webhook endpoint in the specification SpecWebhook
WebhookJobs == 3
\* longest file name of a batch in the specification of the keys, SpecKeys
KeyNameLen == 2

(* Program constants *)

\* defaultJobOptions.attempts
attempts == 3
\* defaultJobOptions.backoff.delay, in milliseconds
backoffDelay == 2000
\* the Worker's concurrency option
concurrency == 2
\* defaultJobOptions.removeOnComplete and removeOnFail
removeOnComplete == 100
removeOnFail == 50
\* the age cleanupQueue hands to recordingQueue.clean: 24 hours, in minutes
grace == 1440

---------------------------------------------------------------------------
(* Values *)

\* JavaScript's undefined, for a property that is absent
Undefined == "undefined"

RecordingCompleted == "session.recording_completed"

SharedScreen == "shared_screen_with_speaker_view"

Revisions == {"database", "simulated"}

\* the revisions that reconcile the uploads with the ZoomMeetings table
ReconcilingRevisions == {"database", "older"}

\* the seam between date and time left out, a timestamp is new Date().toISOString()
Now == "now"

\* the days of the process clock
Days == <<"2025-01-01", "2025-01-02">>

\* the day part of new Date().toISOString()
Today == today

\* truthiness of a string-or-undefined value: undefined and "" are falsy
Truthy(v) == v # Undefined /\ v # ""

---------------------------------------------------------------------------
(* Recording files and webhook payloads *)

\* a file name is the sequence of its characters
Chars_recording_ == <<"r", "e", "c", "o", "r", "d", "i", "n", "g", "_">>

Chars_mp4 == <<".", "m", "p", "4">>

File1 ==
  [id |-> "1", recording_type |-> "timeline", file_name |-> <<"t", " ", "1">>,
   file_size |-> 1, duration |-> 1]

File2 ==
  [id |-> "2", recording_type |-> SharedScreen, file_name |-> <<>>,
   file_size |-> 2, duration |-> 2]

File3 ==
  [id |-> "3", recording_type |-> SharedScreen, file_name |-> <<"s">>,
   file_size |-> 4, duration |-> 4]

FileLists == {<<>>, <<File1>>, <<File1, File2>>}

\* the rows of the ZoomMeetings table
MeetingIds == {"M1"}

\* payload.object.recording_files is an optional property: the model holds
\* it as the list of its values, one when the property is present, none when
\* it is missing
WebhookData(ev, sid, name, tok, files) ==
  [event |-> ev, session_id |-> sid, session_name |-> name,
   account_id |-> "acct", download_token |-> tok, recording_files |-> <<files>>]

\* a valid webhook body without the property recording_files
WebhookDataNoFiles ==
  [event |-> RecordingCompleted, session_id |-> "S1", session_name |-> "M1",
   account_id |-> "acct", download_token |-> "tok", recording_files |-> <<>>]

\* const files = payload?.object?.recording_files || []
Files(webhookData) ==
  IF webhookData.recording_files = <<>> THEN <<>>
  ELSE webhookData.recording_files[1]

\* the webhook bodies handed to addRecordingJob
Payloads ==
  {WebhookData(RecordingCompleted, "S1", "M1", "tok", fl) : fl \in FileLists}
    \cup {WebhookDataNoFiles,
          WebhookData(RecordingCompleted, "S1", "M2", "tok", <<File1>>),
          WebhookData("session.started", "S1", "M1", "tok", <<File1>>),
          WebhookData(RecordingCompleted, Undefined, "M1", "tok", <<File1>>),
          WebhookData(RecordingCompleted, "S1", "M1", Undefined, <<File1>>)}

\* the webhook bodies of the reconciliation specification: the composite
\* recording after another file, two composite recordings, and a session_name
\* that is the id of no row
ReconcilePayloads ==
  {WebhookData(RecordingCompleted, "S1", "M1", "tok", <<File1, File2>>),
   WebhookData(RecordingCompleted, "S1", "M1", "tok", <<File2, File3>>),
   WebhookData(RecordingCompleted, "S1", "M2", "tok", <<File2>>)}

\* the webhook bodies of the re-run specification: one recording delivered
\* again, and another recording of the same session
RerunPayloads ==
  {WebhookData(RecordingCompleted, "S1", "M1", "tok", <<File1, File2>>),
   WebhookData(RecordingCompleted, "S1", "M1", "tok", <<File2>>)}

\* the webhook bodies of the uploader specification
UploaderPayloads ==
  {WebhookData(RecordingCompleted, "S1", "M1", "tok", <<File1>>),
   WebhookData(RecordingCompleted, "S1", "M1", "tok", <<File1, File2>>)}

\* the webhook body of the retention specification
RetentionPayloads ==
  {WebhookData("session.started", "S1", "M1", "tok", <<>>)}

\* the webhook bodies of the shutdown specification: an event the handler
\* rejects, and a recording with a file, which the simulated revision takes
\* a second to process and the database-aware revision uploads
ShutdownPayloads ==
  {WebhookData("session.started", "S1", "M1", "tok", <<>>),
   WebhookData(RecordingCompleted, "S1", "M1", "tok", <<File1>>)}

\* the webhook body of the shared-row specification
SharedPayloads ==
  {WebhookData(RecordingCompleted, "S1", "M1", "tok", <<File2>>)}

\* the webhook bodies of the webhook specification: a recording, another
\* event of a session, and Zoom's validation of the endpoint
WebhookPayloads ==
  {WebhookData(RecordingCompleted, "S1", "M1", "tok", <<>>),
   WebhookData("session.started", "S1", "M1", "tok", <<>>),
   WebhookData("endpoint.url_validation", Undefined, Undefined, Undefined, <<>>)}

\* the webhook bodies of the queue specification
QueuePayloads ==
  {WebhookData(RecordingCompleted, "S1", "M1", "tok", <<>>),
   WebhookData("session.started", "S1", "M1", "tok", <<>>)}

---------------------------------------------------------------------------
(* Destination keys: src/src/config/s3.js *)

\* bucketConfig.folderPrefix, bucketName and region, with the defaults of the file
folderPrefix == "recordings/"

bucketName == "zoomsdk-rec"

region == "ap-south-1"

Letters ==
  {"a", "b", "c", "d", "e", "f", "g", "h", "i", "j", "k", "l", "m", "n", "o", "p",
   "q", "r", "s", "t", "u", "v", "w", "x", "y", "z",
   "A", "B", "C", "D", "E", "F", "G", "H", "I", "J", "K", "L", "M", "N", "O", "P",
   "Q", "R", "S", "T", "U", "V", "W", "X", "Y", "Z"}

Digits == {"0", "1", "2", "3", "4", "5", "6", "7", "8", "9"}

\* the characters the regular expression [^a-zA-Z0-9.-] leaves alone
SafeChars == Letters \cup Digits \cup {".", "-"}

\* the replacement without the flag g: the first match alone
SanitizeFirst(fileName) ==
  LET unsafe == {i \in 1..Len(fileName) : fileName[i] \notin SafeChars}
      first == IF unsafe = {} THEN 0
               ELSE CHOOSE i \in unsafe : \A k \in unsafe : i <= k
  IN [i \in 1..Len(fileName) |-> IF i = first THEN "_" ELSE fileName[i]]

\* fileName.replace(/[^a-zA-Z0-9.-]/g, "_")
Sanitize(fileName) ==
  [i \in 1..Len(fileName) |->
     IF fileName[i] \in SafeChars THEN fileName[i] ELSE "_"]

\* the key is the concatenation of these parts, "/" between the last four
generateS3Key(sessionId, fileName, fileType) ==
  <<folderPrefix, Today, sessionId, fileType, Sanitize(fileName)>>

getS3Url(s3Key) == <<"https://", bucketName, ".s3.", region, ".amazonaws.com/", s3Key>>

---------------------------------------------------------------------------
(* The batch orchestrator: src/src/services/s3StreamingService.js *)

\* the messages of the Errors streamUploadToS3 throws: whatever ends the
\* transfer (an HTTP error, the 300 s timeout of line 58, an S3 error), the
\* orchestrator sees an Error with a message
UploadErrors == {"Upload failed"}

\* how one call of streamUploadToS3 ends, as batchStreamUpload sees it: it
\* returns its result (lines 97-106), or it throws an Error (lines 107-124).
\* The orchestrator and the worker are modelled for either exit, whatever
\* makes the uploader take it.
UploaderOutcomes == {"ok"} \cup UploadErrors

Pending == "pending"

---------------------------------------------------------------------------
(* The uploader as it is written:
   src/src/services/s3StreamingService.js, lines 19-148 *)

\* how the source answers the GET of line 51, and how the bucket answers
\* the upload of line 76
SourceResponses == {"200", "401"}

DestinationResponses == {"ok", "AccessDenied"}

\* no request has been answered
NoResponse == <<>>

\* lines 129-146: the table of getContentType
contentTypes ==
  [mp4 |-> "video/mp4", mov |-> "video/quicktime", avi |-> "video/x-msvideo",
   mkv |-> "video/x-matroska", wmv |-> "video/x-ms-wmv", flv |-> "video/x-flv",
   webm |-> "video/webm", m4v |-> "video/x-m4v", mp3 |-> "audio/mpeg",
   wav |-> "audio/wav", aac |-> "audio/aac", ogg |-> "audio/ogg",
   m4a |-> "audio/mp4", pdf |-> "application/pdf", txt |-> "text/plain",
   json |-> "application/json"]

\* the identifiers a statement of getContentType can read: its parameter,
\* its two constants, and the bindings of the module (lines 1-7, 19, 127,
\* 151)
Scope ==
  {"fileName", "extension", "contentTypes",
   "axios", "s3Client", "bucketConfig", "generateS3Key", "getS3Url",
   "streamUploadToS3", "getContentType", "batchStreamUpload"}

\* an expression ends with a value or with a thrown Error
Returns(value) == [thrown |-> FALSE, value |-> value, message |-> ""]

Throws(message) == [thrown |-> TRUE, value |-> Undefined, message |-> message]

\* String.prototype.toLowerCase, character by character
UpperCase ==
  <<"A", "B", "C", "D", "E", "F", "G", "H", "I", "J", "K", "L", "M", "N", "O", "P",
    "Q", "R", "S", "T", "U", "V", "W", "X", "Y", "Z">>

LowerCase ==
  <<"a", "b", "c", "d", "e", "f", "g", "h", "i", "j", "k", "l", "m", "n", "o", "p",
    "q", "r", "s", "t", "u", "v", "w", "x", "y", "z">>

toLowerCase(chars) ==
  [i \in 1..Len(chars) |->
     IF \E k \in 1..26 : UpperCase[k] = chars[i]
     THEN LowerCase[CHOOSE k \in 1..26 : UpperCase[k] = chars[i]]
     ELSE chars[i]]

\* chars.split(".").pop(): what follows the last ".", the whole string when
\* it has none
SplitPop(chars) ==
  LET dots == {i \in 1..Len(chars) : chars[i] = "."}
      last == IF dots = {} THEN 0
              ELSE CHOOSE i \in dots : \A k \in dots : k <= i
  IN SubSeq(chars, last + 1, Len(chars))

\* the string of a list of characters, as a property name
RECURSIVE Join(_)
Join(chars) ==
  IF chars = <<>> THEN "" ELSE Head(chars) \o Join(Tail(chars))

\* the characters of the recording types of the model
Characters(fileType) ==
  IF fileType = SharedScreen
  THEN <<"s", "h", "a", "r", "e", "d", "_", "s", "c", "r", "e", "e", "n", "_",
         "w", "i", "t", "h", "_", "s", "p", "e", "a", "k", "e", "r", "_",
         "v", "i", "e", "w">>
  ELSE <<"t", "i", "m", "e", "l", "i", "n", "e">>

\* getContentType, lines 127-148: fileName.toLowerCase().split(".").pop()
\* is the extension; line 147 then reads the identifier contentType, and an
\* identifier that is not in scope throws a ReferenceError
getContentType(fileName) ==
  LET extension == Join(SplitPop(toLowerCase(fileName)))
  IN IF "contentType" \notin Scope
     THEN Throws("contentType is not defined")
     ELSE IF extension \in DOMAIN contentTypes
     THEN Returns(contentTypes[extension])
     ELSE Returns("application/octet-stream")

\* streamUploadToS3, lines 26-124, by the message of the Error it throws, or
\* "ok" when it returns its result: the parameters of the upload are built
\* first (line 39 calls getContentType), then the source is asked, then the
\* bucket; the catch block of line 107 turns whatever was thrown into an
\* Error of its own
streamUploadToS3(fileType, source, destination) ==
  LET ContentType == getContentType(Characters(fileType))
  IN IF ContentType.thrown THEN "Upload failed: " \o ContentType.message
     ELSE IF source = "401" THEN "Zoom download token expired or invalid."
     ELSE IF destination = "AccessDenied"
     THEN "Access denied - check AWS credentials & bucket policy."
     ELSE "ok"

\* file.file_name || `recording_${file.id}.mp4`
FileNameOf(file) ==
  IF file.file_name # <<>> THEN file.file_name
  ELSE Chars_recording_ \o <<file.id>> \o Chars_mp4

\* what streamUploadToS3 returns when the transfer succeeds
UploadSuccess(file, sessionId) ==
  LET s3Key == generateS3Key(sessionId, FileNameOf(file), file.recording_type)
  IN [success |-> TRUE, s3Url |-> getS3Url(s3Key), s3Key |-> s3Key,
      etag |-> "etag", fileSize |-> file.file_size, uploadTime |-> Now]

\* the value one element of uploadPromises is fulfilled with
UploadPromise(file, sessionId, outcome) ==
  IF outcome = "ok"
  THEN LET result == UploadSuccess(file, sessionId)
       IN [success |-> TRUE, s3Url |-> result.s3Url, s3Key |-> result.s3Key,
           etag |-> result.etag, fileSize |-> result.fileSize,
           uploadTime |-> result.uploadTime,
           originalFileId |-> file.id, recordingType |-> file.recording_type,
           duration |-> file.duration]
  ELSE [success |-> FALSE, originalFileId |-> file.id, error |-> outcome,
        recordingType |-> file.recording_type]

\* the promise of file i as it would settle were the batch fail-fast: the
\* Error of one transfer ends the transfers still pending with it
SettleFailFast(settled, i, outcome) ==
  IF outcome = "ok" THEN [settled EXCEPT ![i] = outcome]
  ELSE [k \in DOMAIN settled |->
          IF k = i \/ settled[k] = Pending THEN outcome ELSE settled[k]]

\* lines 156-182: each file has its own async function with its own try and
\* catch, so the end of the transfer of file i settles promise i alone
Settle(settled, i, outcome) == [settled EXCEPT ![i] = outcome]

\* a store that keeps every upload under a key of its own
PutObjectVersioned(objects, s3Key, fileId) ==
  objects \cup {<<Append(s3Key, Cardinality(objects)), fileId>>}

\* s3Client.upload to a key: the object replaces the one the key held
PutObject(objects, s3Key, fileId) ==
  {object \in objects : object[1] # s3Key} \cup {<<s3Key, fileId>>}

\* the subsequence of 1..n whose elements satisfy keep
RECURSIVE Indices(_, _)
Indices(n, keep) ==
  IF n = 0 THEN <<>>
  ELSE IF n \in keep THEN Append(Indices(n - 1, keep), n)
  ELSE Indices(n - 1, keep)

\* batchStreamUpload as it would be if it kept the first failure only
BatchStreamUploadFirstFailure(files, sessionId, outcomes) ==
  LET n == Len(files)
      value(i) == UploadPromise(files[i], sessionId, outcomes[i])
      ok == Indices(n, {i \in 1..n : value(i).success})
      ko == Indices(n, {i \in 1..n : ~value(i).success})
  IN [successfulUploads |-> [k \in 1..Len(ok) |-> value(ok[k])],
      failedUploads |->
        IF ko = <<>> THEN <<>>
        ELSE <<[fileId |-> files[ko[1]].id, error |-> value(ko[1]).error]>>,
      totalFiles |-> n, sessionId |-> sessionId, completedAt |-> Now]

\* batchStreamUpload, once every element of uploadPromises has settled:
\* outcomes[i] is how the transfer of files[i] ended
BatchStreamUpload(files, sessionId, outcomes) ==
  LET n == Len(files)
      value(i) == UploadPromise(files[i], sessionId, outcomes[i])
      ok == Indices(n, {i \in 1..n : value(i).success})
      ko == Indices(n, {i \in 1..n : ~value(i).success})
  IN [successfulUploads |-> [k \in 1..Len(ok) |-> value(ok[k])],
      failedUploads |->
        [k \in 1..Len(ko) |->
           [fileId |-> files[ko[k]].id, error |-> value(ko[k]).error]],
      totalFiles |-> n, sessionId |-> sessionId, completedAt |-> Now]

\* no batch has run
NoUpload ==
  [successfulUploads |-> <<>>, failedUploads |-> <<>>, totalFiles |-> 0,
   sessionId |-> Undefined, completedAt |-> Undefined]

---------------------------------------------------------------------------
(* The job handler's results: src/src/workers/recordingWorker.js *)

\* reduce((sum, x) => sum + x, 0) over the numbers of a list
RECURSIVE Sum(_)
Sum(numbers) ==
  IF numbers = <<>> THEN 0 ELSE Head(numbers) + Sum(Tail(numbers))

\* the index of the first upload of the list with this recordingType, or 0
FirstOfType(uploads, recordingType) ==
  LET hits == {i \in 1..Len(uploads) : uploads[i].recordingType = recordingType}
  IN IF hits = {} THEN 0 ELSE CHOOSE i \in hits : \A k \in hits : i <= k

\* the validation of lines 32-50, in the order of the code: the message of
\* the Error thrown, or "" when the payload passes
ValidationErrorNoToken(webhookData) ==
  IF webhookData.event # RecordingCompleted THEN "Unexpected event type"
  ELSE IF ~Truthy(webhookData.session_id) THEN "Session ID is required"
  ELSE ""

ValidationError(webhookData) ==
  IF webhookData.event # RecordingCompleted THEN "Unexpected event type"
  ELSE IF ~Truthy(webhookData.session_id) THEN "Session ID is required"
  ELSE IF ~Truthy(webhookData.download_token) THEN "Download token is required"
  ELSE ""

\* the simulated revision validates the event type alone (lines 296-298)
SimulatedValidationError(webhookData) ==
  IF webhookData.event # RecordingCompleted THEN "Unexpected event type" ELSE ""

\* what a catch block of the handler does with an Error raised at site
\* ("validation": lines 32-50, "upload": the batchStreamUpload call):
\* "failed-result" and "error-result" return a value, "throw" lets it escape
ExceptionOutcomeRethrow(site) == "throw"

\* the database-aware revision: lines 89-111 and 222-232
ExceptionOutcome(site) ==
  IF site = "upload" THEN "failed-result" ELSE "error-result"

\* the simulated revision: lines 361-364
SimulatedExceptionOutcome(site) == "throw"

\* the older revision has the outer catch block alone
\* (s3StreamingService.js lines 359-369)
OlderExceptionOutcome(site) == "error-result"

\* the value returned by the catch block of lines 222-232
ErrorResult(message, jobId) ==
  [error |-> TRUE, message |-> message, jobId |-> jobId, timestamp |-> Now]

\* the value returned at lines 54-60
NoFilesResult(webhookData) ==
  [sessionId |-> webhookData.session_id, accountId |-> webhookData.account_id,
   filesProcessed |-> 0, message |-> "No files to process",
   processingTime |-> Now]

\* the catch block of lines 94-110 with one entry for the first file only
UploadFailedResultFirstFile(webhookData, message) ==
  LET files == Files(webhookData)
  IN [sessionId |-> webhookData.session_id, accountId |-> webhookData.account_id,
      filesProcessed |-> 0, failedFiles |-> Len(files), totalFiles |-> Len(files),
      successfulUploads |-> <<>>,
      failedUploads |-> <<[fileId |-> files[1].id, error |-> message]>>,
      totalSize |-> 0, totalDuration |-> 0, processingTime |-> Now,
      uploadError |-> message, s3UploadStatus |-> "FAILED"]

\* the value returned at lines 94-110
UploadFailedResult(webhookData, message) ==
  LET files == Files(webhookData)
  IN [sessionId |-> webhookData.session_id, accountId |-> webhookData.account_id,
      filesProcessed |-> 0, failedFiles |-> Len(files), totalFiles |-> Len(files),
      successfulUploads |-> <<>>,
      failedUploads |->
        [i \in 1..Len(files) |-> [fileId |-> files[i].id, error |-> message]],
      totalSize |-> 0, totalDuration |-> 0, processingTime |-> Now,
      uploadError |-> message, s3UploadStatus |-> "FAILED"]

\* line 52 as it would be if the check were missing
NoFilesNever(files) == FALSE

\* line 52: files.length === 0
NoFiles(files) == Len(files) = 0

\* line 126 with >= for >
ShouldReconcileAlways(uploadResult) == Len(uploadResult.successfulUploads) >= 0

\* line 126: reconciliation is entered only with a successful upload
ShouldReconcile(uploadResult) == Len(uploadResult.successfulUploads) > 0

\* the where clause as it would be with the session id for the meeting id
LookupWhereSessionId(webhookData) ==
  [column |-> "id", value |-> webhookData.session_id]

\* lines 130-137: the where clause of ZoomMeeting.findOne
LookupWhere(webhookData) ==
  [column |-> "id", value |-> webhookData.session_name]

\* the older revision: s3StreamingService.js lines 284-286
OlderLookupWhere(webhookData) ==
  [column |-> "sessionId", value |-> webhookData.session_id]

\* no lookup has been made
NoWhere == [column |-> Undefined, value |-> Undefined]

\* the rows ZoomMeeting.findOne can return for a where clause.  id is the
\* primary key; the model of the table (src/unnamed/part_005) declares no
\* column sessionId, so which row, if any, a lookup by it returns is open
Candidates(where) ==
  IF where.column = "id" THEN {m \in MeetingIds : m = where.value}
  ELSE MeetingIds

\* how ZoomMeeting.findOne can settle: it throws, it returns null, or it
\* returns a row
FindOneOutcomes(where) ==
  {"error"} \cup Candidates(where)
    \cup (IF where.column = "id" /\ Candidates(where) # {} THEN {} ELSE {"none"})

\* lines 141-145 as they would be with the first successful upload always
PrimaryVideoFirst(successfulUploads) == successfulUploads[1]

\* lines 141-145
PrimaryVideo(successfulUploads) ==
  LET first == FirstOfType(successfulUploads, SharedScreen)
  IN IF first # 0 THEN successfulUploads[first] ELSE successfulUploads[1]

\* the older revision: s3StreamingService.js lines 290-293
OlderPrimaryVideo(successfulUploads) ==
  LET first == FirstOfType(successfulUploads, "video")
  IN IF first # 0 THEN successfulUploads[first] ELSE successfulUploads[1]

\* lines 148-151: the values handed to meeting.update
MeetingUpdate(primaryVideo) ==
  [sessionRecorded |-> "completed", recordingUrl |-> primaryVideo.s3Url]

\* the older revision: s3StreamingService.js lines 296-298
OlderMeetingUpdate(primaryVideo) == [recordingUrl |-> primaryVideo.s3Url]

\* the result of lines 172-192 without the sums of lines 114-123
JobResultNoSums(webhookData, uploadResult) ==
  LET ok == uploadResult.successfulUploads
  IN [sessionId |-> webhookData.session_id, accountId |-> webhookData.account_id,
      filesProcessed |-> Len(ok),
      failedFiles |-> Len(uploadResult.failedUploads),
      totalFiles |-> uploadResult.totalFiles,
      successfulUploads |-> ok,
      failedUploads |-> uploadResult.failedUploads,
      processingTime |-> Now, uploadCompletedAt |-> uploadResult.completedAt,
      databaseUpdated |-> Len(ok) > 0]

\* the value returned at lines 172-192
JobResult(webhookData, uploadResult) ==
  LET ok == uploadResult.successfulUploads
  IN [sessionId |-> webhookData.session_id, accountId |-> webhookData.account_id,
      filesProcessed |-> Len(ok),
      failedFiles |-> Len(uploadResult.failedUploads),
      totalFiles |-> uploadResult.totalFiles,
      successfulUploads |->
        [i \in 1..Len(ok) |->
           [s3Url |-> ok[i].s3Url, s3Key |-> ok[i].s3Key,
            originalFileId |-> ok[i].originalFileId,
            recordingType |-> ok[i].recordingType,
            fileSize |-> ok[i].fileSize, duration |-> ok[i].duration]],
      failedUploads |-> uploadResult.failedUploads,
      totalSize |-> Sum([i \in 1..Len(ok) |-> ok[i].fileSize]),
      totalDuration |-> Sum([i \in 1..Len(ok) |-> ok[i].duration]),
      processingTime |-> Now, uploadCompletedAt |-> uploadResult.completedAt,
      databaseUpdated |-> Len(ok) > 0]

\* lines 311-324: the fileData of the simulated revision
SimulatedFileData(webhookData, file) ==
  [id |-> file.id, type |-> file.recording_type, name |-> FileNameOf(file),
   size |-> file.file_size, duration |-> file.duration,
   downloadToken |-> webhookData.download_token,
   sessionId |-> webhookData.session_id, accountId |-> webhookData.account_id,
   processedAt |-> Now]

\* the value returned at lines 338-349
SimulatedResult(webhookData, processedFiles) ==
  [sessionId |-> webhookData.session_id, accountId |-> webhookData.account_id,
   filesProcessed |-> Len(processedFiles), processedFiles |-> processedFiles,
   totalSize |->
     Sum([i \in 1..Len(processedFiles) |-> processedFiles[i].size]),
   totalDuration |->
     Sum([i \in 1..Len(processedFiles) |-> processedFiles[i].duration]),
   processingTime |-> Now]

---------------------------------------------------------------------------
(* The queue: src/src/queues/recordingQueue.js *)

\* a ZoomMeetings row as it is created (src/unnamed/part_005): the columns
\* the worker and the meeting controller read or write, with their defaults.
\* A nullable date or number is the list of its values, none when it is
\* null; joinedUsers, a comma-separated string, is the list of its ids.
\* writer and tracked are not columns: they are the job and the request to
\* the meeting controller whose update wrote the row last, 0 when none has
NoRecording ==
  [sessionRecorded |-> Undefined, recordingUrl |-> <<>>, writer |-> 0,
   tracked |-> 0,
   mentorId |-> "mentor", menteeId |-> "mentee", joinedUsers |-> <<>>,
   isMentorJoined |-> FALSE, isMenteeJoined |-> FALSE,
   meetingStatus |-> "pending", maxCount |-> 0, meetingStartBy |-> Undefined,
   roomStartTime |-> <<>>, roomEndTime |-> <<>>, isCompleted |-> FALSE,
   duration |-> <<>>]

NoData == WebhookData(Undefined, Undefined, Undefined, Undefined, <<>>)

\* job.returnvalue before the job has completed
NoResult == [unset |-> TRUE]

\* a job id the queue has not handed out yet.  Besides the fields of a BullMQ
\* job (state, data, attemptsStarted, attemptsMade, delay, returnvalue,
\* failedReason) the record holds the handler's position and locals (pc,
\* settled, uploadResult, processedFiles, where, meeting, instance) and the history of
\* the job
\* (delays, escaped, orchestratorThrew, uploadsStarted, lookups, updates,
\* dbErrors)
NoJob ==
  [state |-> "none", data |-> NoData, attemptsStarted |-> 0, attemptsMade |-> 0,
   delay |-> 0, returnvalue |-> NoResult, failedReason |-> "",
   finishedOn |-> <<>>, pc |-> "idle", settled |-> <<>>, uploadResult |-> NoUpload,
   processedFiles |-> <<>>,
   day |-> "", responses |-> <<>>, where |-> NoWhere, meeting |-> Undefined,
   instance |-> NoRecording,
   delays |-> <<>>, escaped |-> 0, orchestratorThrew |-> FALSE,
   uploadsStarted |-> 0, lookups |-> 0, updates |-> 0, dbErrors |-> 0]

\* no call has been observed
NoCall == [name |-> "none"]

\* the bucket is empty, the table has its rows as they were created
InitStore ==
  /\ meetings = [m \in MeetingIds |-> NoRecording]
  /\ today = Days[1]
  /\ bucket = {}
  /\ zoomRecordings = <<>>

\* the meeting controller has served no request
InitNoTracker ==
  /\ activeMeetings = [m \in MeetingIds |-> <<>>]
  /\ requests = <<>>
  /\ clock = 0

Init ==
  /\ revision \in Revisions
  /\ jobs = [j \in 1..MaxJobs |-> NoJob]
  /\ InitStore
  /\ call = NoCall
  /\ InitNoTracker

InitReconcile ==
  /\ revision \in ReconcilingRevisions
  /\ jobs = [j \in 1..MaxJobs |-> NoJob]
  /\ InitStore
  /\ call = NoCall
  /\ InitNoTracker

InitQueue ==
  /\ revision \in Revisions
  /\ jobs = [j \in 1..QueueJobs |-> NoJob]
  /\ InitStore
  /\ call = NoCall
  /\ InitNoTracker

ActiveJobs == {j \in DOMAIN jobs : jobs[j].state = "active"}

\* the worker takes a job only while fewer than three jobs are active
CanStartBelowThree(activeCount) == activeCount < concurrency + 1

\* the worker takes a job only while fewer than concurrency jobs are active
CanStart(activeCount) == activeCount < concurrency

\* a failed attempt is retried even when it was the last one allowed
ShouldRetryOnceMore(attemptsMade) == attemptsMade <= attempts

\* a failed attempt is retried while fewer than attempts attempts were made
ShouldRetry(attemptsMade) == attemptsMade < attempts

\* the backoff without the doubling
BackoffDelayFixed(attemptsMade) == backoffDelay

\* backoff {type: "exponential", delay}: 2^(attemptsMade - 1) * delay
BackoffDelay(attemptsMade) == (2 ^ (attemptsMade - 1)) * backoffDelay

\* the handler returned result: the job moves to completed
Completed(job, result) ==
  [job EXCEPT !.state = "completed", !.pc = "idle", !.returnvalue = result,
              !.attemptsMade = @ + 1, !.finishedOn = <<clock>>]

\* the handler threw: the job waits out its backoff, or moves to failed
Failed(job, message) ==
  LET made == job.attemptsMade + 1
  IN IF ShouldRetry(made)
     THEN [job EXCEPT !.state = "delayed", !.pc = "idle", !.attemptsMade = made,
                      !.delay = BackoffDelay(made),
                      !.delays = Append(@, BackoffDelay(made)),
                      !.escaped = @ + 1]
     ELSE [job EXCEPT !.state = "failed", !.pc = "idle", !.attemptsMade = made,
                      !.failedReason = message, !.escaped = @ + 1,
                      !.finishedOn = <<clock>>]

\* a job the queue has removed: its id is used up, its record is gone
Removed == [NoJob EXCEPT !.state = "removed"]

\* job i finished before job k: by finishedOn, and by id when the two are
\* equal (the order of the sorted set that holds the finished jobs)
FinishedBefore(queue, i, k) ==
  \/ queue[i].finishedOn[1] < queue[k].finishedOn[1]
  \/ queue[i].finishedOn[1] = queue[k].finishedOn[1] /\ i < k

\* the jobs of a finished set that keep their place when the set is cut to
\* count: those with fewer than count jobs of the set after them
Kept(queue, state, count) ==
  LET set == {i \in DOMAIN queue : queue[i].state = state}
  IN {i \in set :
        Cardinality({k \in set : FinishedBefore(queue, i, k)}) < count}

\* a queue that cuts its finished sets from the wrong end
RetainOldest(queue) ==
  LET set(state) == {i \in DOMAIN queue : queue[i].state = state}
      kept(state, count) ==
        {i \in set(state) :
           Cardinality({k \in set(state) : FinishedBefore(queue, k, i)}) < count}
  IN [i \in DOMAIN queue |->
        IF \/ queue[i].state = "completed"
              /\ i \notin kept("completed", removeOnComplete)
           \/ queue[i].state = "failed" /\ i \notin kept("failed", removeOnFail)
        THEN Removed ELSE queue[i]]

\* removeOnComplete: 100 and removeOnFail: 50 (recordingQueue.js lines
\* 12-13): when a job finishes, the queue keeps the newest removeOnComplete
\* completed jobs and the newest removeOnFail failed jobs, and removes the
\* others
Retain(queue) ==
  [i \in DOMAIN queue |->
     IF \/ queue[i].state = "completed"
           /\ i \notin Kept(queue, "completed", removeOnComplete)
        \/ queue[i].state = "failed"
           /\ i \notin Kept(queue, "failed", removeOnFail)
     THEN Removed ELSE queue[i]]

\* an Error raised at site reaches the catch block that encloses it
Raised(job, id, site, message) ==
  LET outcome == CASE revision = "database" -> ExceptionOutcome(site)
                   [] revision = "older" -> OlderExceptionOutcome(site)
                   [] OTHER -> SimulatedExceptionOutcome(site)
  IN CASE outcome = "error-result" -> Completed(job, ErrorResult(message, id))
       [] outcome = "failed-result" ->
            Completed(job, UploadFailedResult(job.data, message))
       [] OTHER -> Failed(job, message)

\* addRecordingJob(webhookData): the queue hands out job ids in sequence
AddRecordingJob(j, payloads) ==
  /\ jobs[j].state = "none"
  /\ \A i \in DOMAIN jobs : i < j => jobs[i].state # "none"
  /\ \E webhookData \in payloads :
       jobs' = [jobs EXCEPT ![j] = [NoJob EXCEPT !.state = "waiting",
                                                 !.data = webhookData]]
  /\ UNCHANGED <<revision, call, meetings, storeVars, trackerVars>>

\* an addRecordingJob that returns a handle whatever recordingQueue.add did
AddRecordingJobSwallows(webhookData, persisted, id) ==
  [name |-> "addRecordingJob", webhookData |-> webhookData,
   persisted |-> persisted, thrown |-> FALSE, job |-> <<id>>]

\* recordingQueue.js lines 33-53, as its caller sees it: the job that
\* recordingQueue.add resolved with is returned (line 48); the Error it
\* rejected with is thrown again (line 51)
AddRecordingJobOutcome(webhookData, persisted, id) ==
  [name |-> "addRecordingJob", webhookData |-> webhookData,
   persisted |-> persisted, thrown |-> ~persisted,
   job |-> IF persisted THEN <<id>> ELSE <<>>]

\* addRecordingJob(webhookData) with its call observed: recordingQueue.add
\* settles, having written the job to the queue or having failed to
AddRecordingJobSettles(j, payloads) ==
  /\ jobs[j].state = "none"
  /\ \A i \in DOMAIN jobs : i < j => jobs[i].state # "none"
  /\ \E webhookData \in payloads, persisted \in BOOLEAN :
       /\ jobs' = IF persisted
                  THEN [jobs EXCEPT ![j] = [NoJob EXCEPT !.state = "waiting",
                                                         !.data = webhookData]]
                  ELSE jobs
       /\ call' = AddRecordingJobOutcome(webhookData, persisted, j)
  /\ UNCHANGED <<revision, meetings, storeVars, trackerVars>>

\* index.js lines 183-186: the message of the response, by the event; the
\* job that was queued, if one was, has no part in it
WebhookMessage(event, job) ==
  IF event = RecordingCompleted THEN "Recording queued for processing"
  ELSE "Event logged"

\* POST /webhook/zoom, index.js lines 85-156 and 179-187: a delivery arrives.
\* A validation of the endpoint is answered at once: 400 without a
\* plainToken, 500 without a configured secret, the two tokens otherwise.
\* For a completed recording the handler awaits addRecordingJob(req.body);
\* any other event is answered "Event logged"
WebhookArrives(payloads) ==
  /\ call.name = "none" \/ (call.name = "webhook" /\ call.pc = "done")
  /\ \E body \in payloads, plainToken \in {Undefined, "plain"},
        webhookSecret \in {Undefined, "secret"} :
       LET delivery == [name |-> "webhook", body |-> body, job |-> <<>>,
                        logged |-> Len(zoomRecordings)]
       IN call' =
            IF body.event = "endpoint.url_validation"
            THEN IF ~Truthy(plainToken)
                 THEN delivery @@ [pc |-> "done", code |-> 400, message |-> ""]
                 ELSE IF ~Truthy(webhookSecret)
                 THEN delivery @@ [pc |-> "done", code |-> 500, message |-> ""]
                 ELSE delivery @@ [pc |-> "done", code |-> 200, message |-> ""]
            ELSE IF body.event = RecordingCompleted
            THEN delivery @@ [pc |-> "addRecordingJob", code |-> 0,
                              message |-> ""]
            ELSE delivery @@ [pc |-> "done", code |-> 200,
                              message |-> WebhookMessage(body.event, <<>>)]
  /\ UNCHANGED <<revision, jobs, meetings, storeVars, trackerVars>>

\* index.js lines 155-187: addRecordingJob settles.  With the job it
\* returned the handler appends the delivery to global.zoomRecordings; the
\* Error it threw is caught and logged (lines 174-176).  Either way the
\* handler answers 200
WebhookAddSettles(j) ==
  /\ call.name = "webhook"
  /\ call.pc = "addRecordingJob"
  /\ jobs[j].state = "none"
  /\ \A i \in DOMAIN jobs : i < j => jobs[i].state # "none"
  /\ \E persisted \in BOOLEAN :
       LET added == AddRecordingJobOutcome(call.body, persisted, j)
       IN /\ jobs' = IF persisted
                     THEN [jobs EXCEPT ![j] = [NoJob EXCEPT !.state = "waiting",
                                                            !.data = call.body]]
                     ELSE jobs
          /\ zoomRecordings' =
               IF added.thrown THEN zoomRecordings
               ELSE Append(zoomRecordings,
                           [sessionId |-> call.body.session_id,
                            event |-> call.body.event,
                            jobId |-> added.job[1], queueStatus |-> "queued"])
          /\ call' = [call EXCEPT !.pc = "done", !.code = 200,
                                  !.job = added.job,
                                  !.message =
                                    WebhookMessage(call.body.event, added.job)]
  /\ UNCHANGED <<revision, meetings, today, bucket, trackerVars>>

\* recordingQueue.getWaiting(), getActive(), getCompleted(), getFailed(): the
\* jobs that are in the state now
GetJobs(state) == {j \in DOMAIN jobs : jobs[j].state = state}

\* the four reads of getQueueStats, in the order of lines 57-60
StatsReads == <<"waiting", "active", "completed", "failed">>

\* a total that leaves the failed jobs out
TotalWithoutFailed(lengths) ==
  lengths["waiting"] + lengths["active"] + lengths["completed"]

\* line 67: waiting.length + active.length + completed.length + failed.length
Total(lengths) ==
  lengths["waiting"] + lengths["active"] + lengths["completed"]
    + lengths["failed"]

\* lines 62-68: the object getQueueStats returns
QueueStats(lengths) ==
  [waiting |-> lengths["waiting"], active |-> lengths["active"],
   completed |-> lengths["completed"], failed |-> lengths["failed"],
   total |-> Total(lengths)]

\* GET /queue/stats calls getQueueStats (src/src/index.js line 70), which
\* runs to its first await: read is the index of the read that is awaited,
\* lengths holds the .length of the lists read so far
GetQueueStatsCalled ==
  /\ call = NoCall
  /\ call' = [name |-> "getQueueStats", read |-> 1,
              lengths |-> [state \in {} |-> 0], stats |-> <<>>]
  /\ UNCHANGED <<revision, jobs, meetings, storeVars, trackerVars>>

\* lines 57-73: the awaited read settles.  It resolves with the jobs that
\* are in its state at that moment, and getQueueStats goes on to the next
\* read or, after the last, returns the counts; or it rejects, and the catch
\* block of line 69 returns null.  stats is the list of what was returned:
\* one object, or none for null.
GetJobsSettles ==
  /\ call.name = "getQueueStats"
  /\ call.read \in DOMAIN StatsReads
  /\ \E rejected \in BOOLEAN :
       LET state == StatsReads[call.read]
           lengths == [s \in DOMAIN call.lengths \cup {state} |->
                         IF s = state THEN Cardinality(GetJobs(state))
                         ELSE call.lengths[s]]
       IN call' =
            IF rejected THEN [call EXCEPT !.read = 0]
            ELSE IF call.read < Len(StatsReads)
            THEN [call EXCEPT !.read = @ + 1, !.lengths = lengths]
            ELSE [call EXCEPT !.read = 0, !.lengths = lengths,
                              !.stats = <<QueueStats(lengths)>>]
  /\ UNCHANGED <<revision, jobs, meetings, storeVars, trackerVars>>

\* a day passes on the process clock
DayPasses ==
  /\ clock < MaxDays * grace
  /\ clock' = clock + grace
  /\ UNCHANGED <<revision, call, jobs, meetings, storeVars, activeMeetings,
                 requests>>

\* every job that was added has finished
QueueIdle ==
  \A j \in DOMAIN jobs : jobs[j].state \in {"none", "completed", "failed", "removed"}

\* a worker that goes on taking jobs while it closes
FetchesAlways(process) == TRUE

\* the worker takes jobs until recordingWorker.close() is called
Fetches(process) == process.name # "shutdown"

\* recordingWorker.js lines 269-279: SIGTERM or SIGINT arrives, its handler
\* calls recordingWorker.close() and awaits it.  A second signal finds the
\* worker closing and awaits the same close, which changes nothing.
SignalArrives ==
  /\ call = NoCall
  /\ \E signal \in {"SIGTERM", "SIGINT"} :
       call' = [name |-> "shutdown", signal |-> signal, exited |-> FALSE,
                active |-> ActiveJobs]
  /\ UNCHANGED <<revision, jobs, meetings, storeVars, trackerVars>>

\* lines 271-272 and 277-278: close() resolves once no job is active, and
\* the handler calls process.exit(0)
CloseSettles ==
  /\ call.name = "shutdown"
  /\ ~call.exited
  /\ ActiveJobs = {}
  /\ call' = [call EXCEPT !.exited = TRUE]
  /\ UNCHANGED <<revision, jobs, meetings, storeVars, trackerVars>>

\* the worker takes a waiting job and calls the handler
StartJob(j) ==
  /\ jobs[j].state = "waiting"
  /\ Fetches(call)
  /\ CanStart(Cardinality(ActiveJobs))
  /\ jobs' = [jobs EXCEPT ![j] =
                [@ EXCEPT !.state = "active", !.pc = "validate",
                          !.attemptsStarted = @ + 1, !.delay = 0,
                          !.settled = <<>>, !.uploadResult = NoUpload,
                          !.processedFiles = <<>>, !.where = NoWhere,
                          !.meeting = Undefined, !.instance = NoRecording]]
  /\ UNCHANGED <<revision, call, meetings, storeVars, trackerVars>>

\* a progress endpoint that has no word for a completed job
progressStatusNoSuccess(state) ==
  IF state = "failed" THEN "FAILED"
  ELSE IF state = "active" THEN "PROCESSING"
  ELSE "WAITING"

\* index.js lines 660-667: the status of the progress response, by the
\* state of the job
progressStatus(state) ==
  IF state = "completed" THEN "SUCCESS"
  ELSE IF state = "failed" THEN "FAILED"
  ELSE IF state = "active" THEN "PROCESSING"
  ELSE "WAITING"

\* GET /job/:jobId/progress, index.js lines 619-622: the request arrives
\* and the handler awaits recordingQueue.getJob(jobId)
GetJobProgressCalled ==
  /\ call.name = "none" \/ (call.name = "progress" /\ call.pc = "done")
  /\ \E jobId \in DOMAIN jobs :
       call' = [name |-> "progress", jobId |-> jobId, pc |-> "getJob",
                returnValue |-> NoResult, state |-> "", code |-> 0,
                status |-> ""]
  /\ UNCHANGED <<revision, jobs, meetings, storeVars, trackerVars>>

\* index.js lines 622-632: getJob settles; without a job of that id the
\* handler answers 404, with one it keeps the job as it is now and awaits
\* job.getState()
GetJobSettles ==
  /\ call.name = "progress"
  /\ call.pc = "getJob"
  /\ call' =
       IF jobs[call.jobId].state = "none" \/ jobs[call.jobId] = Removed
       THEN [call EXCEPT !.pc = "done", !.code = 404, !.status = "NOT_FOUND"]
       ELSE [call EXCEPT !.pc = "getState",
                         !.returnValue = jobs[call.jobId].returnvalue]
  /\ UNCHANGED <<revision, jobs, meetings, storeVars, trackerVars>>

\* index.js lines 632-669: getState settles with the state the job has now
\* ("unknown" when the job has been removed) and the handler answers
GetStateSettles ==
  /\ call.name = "progress"
  /\ call.pc = "getState"
  /\ LET state == IF jobs[call.jobId] = Removed THEN "unknown"
                  ELSE jobs[call.jobId].state
     IN call' = [call EXCEPT !.pc = "done", !.code = 200, !.state = state,
                             !.status = progressStatus(state)]
  /\ UNCHANGED <<revision, jobs, meetings, storeVars, trackerVars>>

\* the backoff delay of a delayed job has passed
PromoteDelayed(j) ==
  /\ jobs[j].state = "delayed"
  /\ jobs' = [jobs EXCEPT ![j] = [@ EXCEPT !.state = "waiting"]]
  /\ UNCHANGED <<revision, call, meetings, storeVars, trackerVars>>

---------------------------------------------------------------------------
(* The job handler: src/src/workers/recordingWorker.js *)

\* The handler from its entry to its first await.
\* Database-aware revision, lines 25-82: validation, the zero-file return,
\* then the call of batchStreamUpload, which starts every file's transfer:
\* each call of streamUploadToS3 derives its key (s3StreamingService.js line
\* 32) before its first await, so the keys of a batch carry the date of this
\* step, kept in day
\* (the older revision does the same: s3StreamingService.js lines 219-264).
\* Simulated revision, lines 289-335: the event check, then the first file
\* and the one-second timer (with no file the loop ends and the handler
\* returns at once).
Validate(j) ==
  LET job == jobs[j]
      files == Files(job.data)
      message == IF revision = "simulated"
                 THEN SimulatedValidationError(job.data)
                 ELSE ValidationError(job.data)
  IN /\ job.state = "active"
     /\ job.pc = "validate"
     /\ jobs' = Retain([jobs EXCEPT ![j] =
          IF message # "" THEN Raised(job, j, "validation", message)
          ELSE IF revision # "simulated"
          THEN IF NoFiles(files) THEN Completed(job, NoFilesResult(job.data))
               ELSE [job EXCEPT !.pc = "uploading", !.day = Today,
                                !.responses =
                                  [i \in 1..Len(files) |-> NoResponse],
                                !.settled = [i \in 1..Len(files) |-> Pending],
                                !.uploadsStarted = @ + Len(files)]
          ELSE IF Len(files) = 0
               THEN Completed(job, SimulatedResult(job.data, <<>>))
               ELSE [job EXCEPT !.pc = "sleeping",
                                !.processedFiles =
                                  <<SimulatedFileData(job.data, files[1])>>]])
     /\ UNCHANGED <<revision, call, meetings, storeVars, trackerVars>>

\* simulated revision, lines 308-360: the timer of line 335 fires; the loop
\* takes the next file, or ends and the handler returns its result
TimerFires(j) ==
  LET job == jobs[j]
      files == Files(job.data)
      done == Len(job.processedFiles)
  IN /\ job.state = "active"
     /\ job.pc = "sleeping"
     /\ jobs' = Retain([jobs EXCEPT ![j] =
          IF done < Len(files)
          THEN [job EXCEPT !.processedFiles =
                  Append(@, SimulatedFileData(job.data, files[done + 1]))]
          ELSE Completed(job, SimulatedResult(job.data, job.processedFiles))])
     /\ UNCHANGED <<revision, call, meetings, storeVars, trackerVars>>

\* s3StreamingService.js lines 156-182: the transfer of file i ends, with
\* the result of streamUploadToS3 or with the Error it throws
UploaderSettles(j, i) ==
  /\ jobs[j].state = "active"
  /\ jobs[j].pc = "uploading"
  /\ i \in DOMAIN jobs[j].settled
  /\ jobs[j].settled[i] = Pending
  /\ \E outcome \in UploaderOutcomes :
       LET file == Files(jobs[j].data)[i]
           s3Key == generateS3Key(jobs[j].data.session_id, FileNameOf(file),
                                  file.recording_type)
       IN /\ jobs' = [jobs EXCEPT ![j].settled = Settle(@, i, outcome)]
          /\ bucket' = IF outcome = "ok" THEN PutObject(bucket, s3Key, file.id)
                       ELSE bucket
  /\ UNCHANGED <<revision, call, meetings, today, zoomRecordings, trackerVars>>

\* s3StreamingService.js lines 26-124 and 156-182: the transfer of file i
\* ends as streamUploadToS3 ends it, given what the source and the bucket
\* answer when they are asked
StreamUploadSettles(j, i) ==
  /\ jobs[j].state = "active"
  /\ jobs[j].pc = "uploading"
  /\ i \in DOMAIN jobs[j].settled
  /\ jobs[j].settled[i] = Pending
  /\ \E source \in SourceResponses, destination \in DestinationResponses :
       LET file == Files(jobs[j].data)[i]
           s3Key == generateS3Key(jobs[j].data.session_id, FileNameOf(file),
                                  file.recording_type)
           outcome == streamUploadToS3(file.recording_type, source, destination)
       IN /\ jobs' = [jobs EXCEPT ![j].settled = Settle(@, i, outcome),
                                  ![j].responses[i] = <<source, destination>>]
          /\ bucket' = IF outcome = "ok" THEN PutObject(bucket, s3Key, file.id)
                       ELSE bucket
  /\ UNCHANGED <<revision, call, meetings, today, zoomRecordings, trackerVars>>

\* new Date() of src/src/config/s3.js line 24 passes midnight.  The keys of a
\* batch are derived in one synchronous pass, so the date changes between
\* two batches, never within one.
Midnight ==
  /\ today = Days[1]
  /\ \A j \in DOMAIN jobs : jobs[j].pc # "uploading"
  /\ today' = Days[2]
  /\ UNCHANGED <<revision, call, jobs, meetings, bucket, zoomRecordings,
                 trackerVars>>

\* s3StreamingService.js lines 184-208 and recordingWorker.js lines 83-137:
\* every transfer has settled, batchStreamUpload returns, and the handler
\* goes on to the lookup of the meeting, or to its result
BatchSettles(j) ==
  LET job == jobs[j]
      uploadResult ==
        BatchStreamUpload(Files(job.data), job.data.session_id,
                          job.settled)
  IN /\ job.state = "active"
     /\ job.pc = "uploading"
     /\ \A i \in DOMAIN job.settled : job.settled[i] # Pending
     /\ jobs' = Retain([jobs EXCEPT ![j] =
          IF ShouldReconcile(uploadResult)
          THEN [job EXCEPT !.pc = "lookup", !.uploadResult = uploadResult,
                           !.lookups = @ + 1,
                           !.where = IF revision = "older"
                                     THEN OlderLookupWhere(job.data)
                                     ELSE LookupWhere(job.data)]
          ELSE Completed([job EXCEPT !.uploadResult = uploadResult],
                         JobResult(job.data, uploadResult))])
     /\ UNCHANGED <<revision, call, meetings, storeVars, trackerVars>>

\* recordingWorker.js lines 78-111: the call of batchStreamUpload itself is
\* rejected, for a reason that is not the failure of a file's transfer (those
\* are caught file by file), and the Error reaches the catch block of line 89
OrchestratorThrows(j) ==
  LET job == jobs[j]
  IN /\ job.state = "active"
     /\ job.pc = "uploading"
     /\ jobs' = Retain([jobs EXCEPT ![j] =
          Raised([job EXCEPT !.orchestratorThrew = TRUE], j, "upload",
                 "S3 outage")])
     /\ UNCHANGED <<revision, call, meetings, storeVars, trackerVars>>

\* recordingWorker.js lines 135-169: ZoomMeeting.findOne settles: it throws
\* (into the catch block of line 165), finds no row, or returns a row (and
\* the handler picks the primary video and calls meeting.update)
FindOneSettles(j) ==
  LET job == jobs[j]
  IN /\ job.state = "active"
     /\ job.pc = "lookup"
     /\ \E outcome \in FindOneOutcomes(job.where) :
          jobs' = Retain([jobs EXCEPT ![j] =
            CASE outcome = "error" ->
                   Completed([job EXCEPT !.dbErrors = @ + 1],
                             JobResult(job.data, job.uploadResult))
              [] outcome = "none" ->
                   Completed(job, JobResult(job.data, job.uploadResult))
              [] OTHER -> [job EXCEPT !.pc = "update", !.meeting = outcome,
                                      !.instance = meetings[outcome]]])
     /\ UNCHANGED <<revision, call, meetings, storeVars, trackerVars>>

\* meeting.update as it would be if it appended to the columns it is given
ApplyUpdateAppend(row, instance, values, j) ==
  [column \in DOMAIN row |->
     IF column = "writer" THEN j
     ELSE IF column = "recordingUrl" THEN row[column] \o values[column]
     ELSE IF column \in DOMAIN values THEN values[column]
     ELSE row[column]]

\* meeting.update as it would be if it saved every column of the instance
\* that findOne returned
ApplyUpdateSaveInstance(row, instance, values, j) ==
  [column \in DOMAIN row |->
     IF column = "writer" THEN j
     ELSE IF column = "tracked" THEN row[column]
     ELSE IF column \in DOMAIN values THEN values[column]
     ELSE instance[column]]

\* meeting.update(values), called on the instance findOne returned: the
\* UPDATE statement names the columns of values alone, so these are
\* overwritten in the row and the others are left as they are, whatever
\* the instance holds.  The update is that of job j
ApplyUpdate(row, instance, values, j) ==
  [column \in DOMAIN row |->
     IF column = "writer" THEN j
     ELSE IF column \in DOMAIN values THEN values[column]
     ELSE row[column]]

\* recordingWorker.js lines 148-221: meeting.update settles: it has written
\* the columns of the row findOne returned, or it throws; the handler
\* returns its result
UpdateSettles(j) ==
  LET job == jobs[j]
      values ==
        IF revision = "older"
        THEN OlderMeetingUpdate(OlderPrimaryVideo(job.uploadResult.successfulUploads))
        ELSE MeetingUpdate(PrimaryVideo(job.uploadResult.successfulUploads))
  IN /\ job.state = "active"
     /\ job.pc = "update"
     /\ \E dbError \in BOOLEAN :
          /\ meetings' =
               IF dbError THEN meetings
               ELSE [meetings EXCEPT ![job.meeting] =
                       ApplyUpdate(@, job.instance, values, j)]
          /\ jobs' = Retain([jobs EXCEPT ![j] =
               Completed([job EXCEPT !.updates = IF dbError THEN @ ELSE @ + 1,
                                     !.dbErrors = IF dbError THEN @ + 1 ELSE @],
                         JobResult(job.data, job.uploadResult))])
     /\ UNCHANGED <<revision, call, storeVars, trackerVars>>

---------------------------------------------------------------------------
(* The meeting controller: src/unnamed/part_003 *)

\* the users and the meetings of the requests
UserIds == {"mentor", "mentee"}

RequestKinds == {"join", "leave", "end"}

\* new Date(): the time of the process clock
Date == <<clock>>

\* a request that has not arrived.  Besides the request (kind, meetingId,
\* userId) the record holds the handler's position and locals (pc, meeting,
\* updateObj, emptied), the entry of activeMeetings that the handler found
\* (entry) and the status of the response
NoUpdate == [none |-> TRUE]

NoRequest ==
  [kind |-> "none", meetingId |-> Undefined, userId |-> Undefined,
   pc |-> "idle", meeting |-> NoRecording, updateObj |-> NoUpdate,
   emptied |-> FALSE, entry |-> <<>>, status |-> 0]

\* the meeting controller is up, with no request served yet
InitTracker(maxRequests) ==
  /\ activeMeetings = [m \in MeetingIds |-> <<>>]
  /\ requests = [r \in 1..maxRequests |-> NoRequest]
  /\ clock = 0

\* activeMeetings.get(meetingId) || []: an entry of the Map is the list of
\* its values, none when the Map has no such key
UserArray(meetingId) ==
  IF activeMeetings[meetingId] = <<>> THEN <<>> ELSE activeMeetings[meetingId][1]

Includes(list, x) == \E i \in DOMAIN list : list[i] = x

\* userArray.filter((id) => id !== userId)
Without(list, x) ==
  LET keep(id) == id # x IN SelectSeq(list, keep)

Max(a, b) == IF a >= b THEN a ELSE b

\* lines 159-163 and 262-271: the flags of who ever joined
JoinedFlags(meeting, userId) ==
  [isMentorJoined |-> meeting.isMentorJoined \/ meeting.mentorId = userId,
   isMenteeJoined |-> meeting.isMenteeJoined \/ meeting.menteeId = userId]

\* lines 296-301 and 413-418: with a roomStartTime in the row, updateObj
\* gets duration = Math.round(durationMs / (1000 * 60)), the clock counting
\* minutes
WithDuration(meeting, updateObj) ==
  IF meeting.roomStartTime # <<>>
  THEN [duration |-> <<updateObj.roomEndTime[1] - meeting.roomStartTime[1]>>]
         @@ updateObj
  ELSE updateObj

\* a handleUserJoined that starts the meeting whenever more than one user
\* is active
JoinUpdateRestarts(meeting, userArray, userId) ==
  LET allJoinedUsers ==
        IF Includes(meeting.joinedUsers, userId) THEN meeting.joinedUsers
        ELSE Append(meeting.joinedUsers, userId)
      base ==
        [joinedUsers |-> allJoinedUsers, currentParticipants |-> Len(userArray),
         maxCount |-> Max(meeting.maxCount, Len(userArray)),
         lastActivityTime |-> Date] @@ JoinedFlags(meeting, userId)
  IN IF Len(userArray) > 1
     THEN [roomStartTime |-> Date, meetingStatus |-> "started",
           meetingStartBy |-> userArray[1]] @@ base
     ELSE base

\* handleUserJoined, lines 159-206: updateObj, for the row read and the
\* active list after the push
JoinUpdate(meeting, userArray, userId) ==
  LET allJoinedUsers ==
        IF Includes(meeting.joinedUsers, userId) THEN meeting.joinedUsers
        ELSE Append(meeting.joinedUsers, userId)
      base ==
        [joinedUsers |-> allJoinedUsers, currentParticipants |-> Len(userArray),
         maxCount |-> Max(meeting.maxCount, Len(userArray)),
         lastActivityTime |-> Date] @@ JoinedFlags(meeting, userId)
  IN IF Len(userArray) > 1 /\ meeting.meetingStatus # "started"
     THEN [roomStartTime |-> Date, meetingStatus |-> "started",
           meetingStartBy |-> userArray[1]] @@ base
     ELSE IF Len(userArray) = 1 /\ ~Truthy(meeting.meetingStatus)
     THEN [meetingStatus |-> "waiting"] @@ base
     ELSE base

\* a handleUserLeft that completes every meeting its last user leaves
LeaveUpdateCompletes(meeting, updatedUserArray, userId) ==
  LET base ==
        [joinedUsers |-> meeting.joinedUsers,
         currentParticipants |-> Len(updatedUserArray),
         lastActivityTime |-> Date] @@ JoinedFlags(meeting, userId)
  IN IF Len(updatedUserArray) # 0 THEN base
     ELSE WithDuration(meeting,
            [meetingStatus |-> "completed", roomEndTime |-> Date,
             isCompleted |-> TRUE] @@ base)

\* handleUserLeft, lines 262-339: updateObj, for the row read and the
\* active list after the removal
LeaveUpdate(meeting, updatedUserArray, userId) ==
  LET base ==
        [joinedUsers |-> meeting.joinedUsers,
         currentParticipants |-> Len(updatedUserArray),
         lastActivityTime |-> Date] @@ JoinedFlags(meeting, userId)
      maxCountReached == meeting.maxCount >= 2
      meetingStarted ==
        meeting.meetingStatus = "started" /\ meeting.roomStartTime # <<>>
  IN IF Len(updatedUserArray) # 0 THEN base
     ELSE IF maxCountReached \/ meetingStarted
     THEN WithDuration(meeting,
            [meetingStatus |-> "completed", roomEndTime |-> Date,
             isCompleted |-> TRUE] @@ base)
     ELSE [meetingStatus |-> "pending", roomStartTime |-> <<>>,
           roomEndTime |-> <<>>, isCompleted |-> FALSE, duration |-> <<>>,
           meetingStartBy |-> Undefined, joinedUsers |-> <<>>,
           currentParticipants |-> 0] @@ base

\* handleMeetingEnd, lines 403-427: updateObj, for the row read
EndUpdate(meeting) ==
  WithDuration(meeting,
    [meetingStatus |-> "completed", roomEndTime |-> Date, isCompleted |-> TRUE,
     isMentorJoined |-> meeting.isMentorJoined,
     isMenteeJoined |-> meeting.isMenteeJoined])

\* ZoomMeeting.update(updateObj, {where: {id: meetingId}}), lines 38-41: the
\* columns of the model that updateObj names are overwritten, the others are
\* left as they are; a property that is no column of the model is ignored.
\* The update is that of request r
StaticUpdate(row, updateObj, r) ==
  [column \in DOMAIN row |->
     IF column = "tracked" THEN r
     ELSE IF column \in DOMAIN updateObj THEN updateObj[column]
     ELSE row[column]]

\* a handleMeetingEnd that takes every user for the mentor
isMentorAlways(meeting, userId) == TRUE

\* handleMeetingEnd, line 396: the user is the mentor (host) of the meeting
isMentor(meeting, userId) == meeting.mentorId = userId

\* a request reaches its handler, which runs to await findMeetingById
\* (lines 127-140, 236-248, 377-389): without a meetingId or a userId it
\* answers 400
RequestArrives(r) ==
  /\ requests[r].kind = "none"
  /\ \A i \in DOMAIN requests : i < r => requests[i].kind # "none"
  /\ \E kind \in RequestKinds, meetingId \in MeetingIds, userId \in UserIds :
       requests' = [requests EXCEPT ![r] =
         IF ~Truthy(meetingId) \/ ~Truthy(userId)
         THEN [@ EXCEPT !.kind = kind, !.meetingId = meetingId,
                        !.userId = userId, !.pc = "done", !.status = 400]
         ELSE [@ EXCEPT !.kind = kind, !.meetingId = meetingId,
                        !.userId = userId, !.pc = "find"]]
  /\ UNCHANGED <<revision, call, jobs, meetings, storeVars, activeMeetings,
                 clock>>

\* findMeetingById settles (lines 140-212, 248-344, 389-435): it throws and
\* the handler answers 500, it finds no row and the handler answers 404, or
\* it returns the row and the handler updates the active list, builds
\* updateObj and calls updateMeetingTransactional; handleMeetingEnd answers
\* 403 to a user who is not the mentor
FindMeetingSettles(r) ==
  LET request == requests[r]
      m == request.meetingId
      userId == request.userId
      meeting == meetings[m]
      userArray == UserArray(m)
      pushed == IF Includes(userArray, userId) THEN userArray
                ELSE Append(userArray, userId)
      updatedUserArray == Without(userArray, userId)
  IN /\ request.pc = "find"
     /\ \E dbError \in BOOLEAN :
          IF dbError
          THEN /\ requests' = [requests EXCEPT ![r].pc = "done", ![r].status = 500]
               /\ UNCHANGED activeMeetings
          ELSE IF m \notin MeetingIds
          THEN /\ requests' = [requests EXCEPT ![r].pc = "done", ![r].status = 404]
               /\ UNCHANGED activeMeetings
          ELSE CASE request.kind = "join" ->
                      /\ activeMeetings' = [activeMeetings EXCEPT ![m] = <<pushed>>]
                      /\ requests' = [requests EXCEPT
                           ![r].pc = "update", ![r].meeting = meeting,
                           ![r].entry = activeMeetings[m],
                           ![r].updateObj = JoinUpdate(meeting, pushed, userId)]
                 [] request.kind = "leave" ->
                      /\ activeMeetings' =
                           [activeMeetings EXCEPT ![m] = <<updatedUserArray>>]
                      /\ requests' = [requests EXCEPT
                           ![r].pc = "update", ![r].meeting = meeting,
                           ![r].entry = activeMeetings[m],
                           ![r].emptied = (Len(updatedUserArray) = 0),
                           ![r].updateObj =
                             LeaveUpdate(meeting, updatedUserArray, userId)]
                 [] OTHER ->
                      IF ~isMentor(meeting, userId)
                      THEN /\ requests' = [requests EXCEPT ![r].pc = "done",
                                                           ![r].status = 403]
                           /\ UNCHANGED activeMeetings
                      ELSE /\ activeMeetings' = [activeMeetings EXCEPT ![m] = <<>>]
                           /\ requests' = [requests EXCEPT
                                ![r].pc = "update", ![r].meeting = meeting,
                                ![r].entry = activeMeetings[m],
                                ![r].updateObj = EndUpdate(meeting)]
     /\ UNCHANGED <<revision, call, jobs, meetings, storeVars, clock>>

\* updateMeetingTransactional settles (lines 36-50, then 209-232, 341-373,
\* 432-454): the transaction has committed the update of the row and the
\* handler answers 200 (handleUserLeft first deletes the entry of an emptied
\* active list), or it throws and the handler answers 500
TransactionSettles(r) ==
  LET request == requests[r]
      m == request.meetingId
  IN /\ request.pc = "update"
     /\ \E dbError \in BOOLEAN :
          IF dbError
          THEN /\ requests' = [requests EXCEPT ![r].pc = "done", ![r].status = 500]
               /\ UNCHANGED <<meetings, activeMeetings>>
          ELSE /\ meetings' = [meetings EXCEPT ![m] =
                                 StaticUpdate(@, request.updateObj, r)]
               /\ activeMeetings' =
                    IF request.kind = "leave" /\ request.emptied
                    THEN [activeMeetings EXCEPT ![m] = <<>>]
                    ELSE activeMeetings
               /\ requests' = [requests EXCEPT ![r].pc = "done", ![r].status = 200]
     /\ UNCHANGED <<revision, call, jobs, storeVars, clock>>

\* a minute passes on the process clock
MinutePasses ==
  /\ clock < MaxMinutes
  /\ clock' = clock + 1
  /\ UNCHANGED <<revision, call, jobs, meetings, storeVars, activeMeetings,
                 requests>>

---------------------------------------------------------------------------
(* The functions on file names, called on their own:
   src/src/services/s3StreamingService.js and src/src/config/s3.js *)

\* the characters of the file names: letters of both cases, a digit, the
\* two punctuation marks the key keeps, and two characters it replaces
NameChars == {"m", "P", "4", ".", "-", " ", "/"}

FileNames == UNION {[1..n -> NameChars] : n \in 0..MaxNameLen}

\* getContentType(fileName) is called and returns or throws
CallGetContentType ==
  /\ call = NoCall
  /\ \E fileName \in FileNames :
       call' = [name |-> "getContentType", fileName |-> fileName,
                result |-> getContentType(fileName)]
  /\ UNCHANGED <<revision, jobs, meetings, storeVars, trackerVars>>

\* s3StreamingService.js lines 158-164 and 32: batchStreamUpload names the
\* file, by file.file_name or by its fallback, and streamUploadToS3 derives
\* the key of that name
CallGenerateS3Key ==
  /\ call = NoCall
  /\ \E file_name \in FileNames :
       LET file == [id |-> "7", file_name |-> file_name]
       IN call' = [name |-> "generateS3Key", fileName |-> FileNameOf(file),
                   s3Key |-> generateS3Key("S1", FileNameOf(file), SharedScreen)]
  /\ UNCHANGED <<revision, jobs, meetings, storeVars, trackerVars>>

\* the characters of the file names of a batch: a letter, a character the
\* key replaces, and the character that replaces it
KeyNameChars == {"a", " ", "_"}

KeyNames == UNION {[1..n -> KeyNameChars] : n \in 0..KeyNameLen}

\* the files of a batch: two files with distinct ids
BatchFiles ==
  {<<[id |-> "1", recording_type |-> t1, file_name |-> n1],
     [id |-> "2", recording_type |-> t2, file_name |-> n2]>> :
     t1 \in {"timeline"}, t2 \in {"timeline", SharedScreen},
     n1 \in KeyNames, n2 \in KeyNames}

\* s3StreamingService.js lines 156-164 and 32: batchStreamUpload(files,
\* sessionId, downloadToken) starts the transfer of every file, and each
\* call of streamUploadToS3 derives the key of its object
CallBatchStreamUpload ==
  /\ call = NoCall
  /\ \E files \in BatchFiles :
       call' = [name |-> "batchStreamUpload", files |-> files,
                s3Keys |-> [i \in DOMAIN files |->
                              generateS3Key("S1", FileNameOf(files[i]),
                                            files[i].recording_type)]]
  /\ UNCHANGED <<revision, jobs, meetings, storeVars, trackerVars>>

---------------------------------------------------------------------------
(* Specifications *)

\* the pipeline: every payload, MaxJobs jobs
Next ==
  \/ \E j \in DOMAIN jobs : AddRecordingJob(j, Payloads)
  \/ \E j \in DOMAIN jobs : StartJob(j)
  \/ \E j \in DOMAIN jobs : PromoteDelayed(j)
  \/ \E j \in DOMAIN jobs : Validate(j)
  \/ \E j \in DOMAIN jobs : TimerFires(j)
  \/ \E j \in DOMAIN jobs : \E i \in 1..Len(jobs[j].settled) : UploaderSettles(j, i)
  \/ \E j \in DOMAIN jobs : BatchSettles(j)
  \/ \E j \in DOMAIN jobs : OrchestratorThrows(j)
  \/ \E j \in DOMAIN jobs : FindOneSettles(j)
  \/ \E j \in DOMAIN jobs : UpdateSettles(j)

Spec == Init /\ [][Next]_vars

\* the reconciliation of the uploads with the ZoomMeetings table, in the two
\* revisions that have it: MaxJobs jobs with files to upload
NextReconcile ==
  \/ \E j \in DOMAIN jobs : AddRecordingJob(j, ReconcilePayloads)
  \/ \E j \in DOMAIN jobs : StartJob(j)
  \/ \E j \in DOMAIN jobs : Validate(j)
  \/ \E j \in DOMAIN jobs : \E i \in 1..Len(jobs[j].settled) : UploaderSettles(j, i)
  \/ \E j \in DOMAIN jobs : BatchSettles(j)
  \/ \E j \in DOMAIN jobs : FindOneSettles(j)
  \/ \E j \in DOMAIN jobs : UpdateSettles(j)

SpecReconcile == InitReconcile /\ [][NextReconcile]_vars

\* The re-run of a recording job, on the same day or on the next: the
\* database-aware and the older revision with RerunJobs jobs
InitRerun ==
  /\ revision \in ReconcilingRevisions
  /\ jobs = [j \in 1..RerunJobs |-> NoJob]
  /\ InitStore
  /\ call = NoCall
  /\ InitNoTracker

NextRerun ==
  \/ \E j \in DOMAIN jobs : AddRecordingJob(j, RerunPayloads)
  \/ \E j \in DOMAIN jobs : StartJob(j)
  \/ \E j \in DOMAIN jobs : Validate(j)
  \/ \E j \in DOMAIN jobs : \E i \in 1..Len(jobs[j].settled) : UploaderSettles(j, i)
  \/ \E j \in DOMAIN jobs : BatchSettles(j)
  \/ \E j \in DOMAIN jobs : FindOneSettles(j)
  \/ \E j \in DOMAIN jobs : UpdateSettles(j)
  \/ Midnight

SpecRerun == InitRerun /\ [][NextRerun]_vars

\* The queue with the calls of addRecordingJob observed: EnqueueJobs jobs
InitEnqueue ==
  /\ revision \in Revisions
  /\ jobs = [j \in 1..EnqueueJobs |-> NoJob]
  /\ InitStore
  /\ call = NoCall
  /\ InitNoTracker

NextEnqueue ==
  \/ \E j \in DOMAIN jobs : AddRecordingJobSettles(j, QueuePayloads)
  \/ \E j \in DOMAIN jobs : StartJob(j)
  \/ \E j \in DOMAIN jobs : PromoteDelayed(j)
  \/ \E j \in DOMAIN jobs : Validate(j)

SpecEnqueue == InitEnqueue /\ [][NextEnqueue]_vars

\* The queue and its worker with one call of getQueueStats: StatsJobs jobs
InitStats ==
  /\ revision \in Revisions
  /\ jobs = [j \in 1..StatsJobs |-> NoJob]
  /\ InitStore
  /\ call = NoCall
  /\ InitNoTracker

NextStats ==
  \/ \E j \in DOMAIN jobs : AddRecordingJob(j, QueuePayloads)
  \/ \E j \in DOMAIN jobs : StartJob(j)
  \/ \E j \in DOMAIN jobs : PromoteDelayed(j)
  \/ \E j \in DOMAIN jobs : Validate(j)
  \/ GetQueueStatsCalled
  \/ GetJobsSettles

SpecStats == InitStats /\ [][NextStats]_vars

\* The queue and its worker over MaxDays days, with CleanupJobs jobs.
\* cleanupQueue (recordingQueue.js lines 75-83) is exported and nothing
\* imports or calls it (src/src/index.js lines 8-11 import addRecordingJob
\* and getQueueStats alone; no timer is set anywhere), so no step of the
\* program is a call of it.  The fairness is that of a running process: the
\* clock goes on and the worker takes the steps it can take.
InitCleanup ==
  /\ revision \in Revisions
  /\ jobs = [j \in 1..CleanupJobs |-> NoJob]
  /\ InitStore
  /\ call = NoCall
  /\ InitNoTracker

NextCleanup ==
  \/ \E j \in DOMAIN jobs : AddRecordingJob(j, QueuePayloads)
  \/ \E j \in DOMAIN jobs : StartJob(j)
  \/ \E j \in DOMAIN jobs : PromoteDelayed(j)
  \/ \E j \in DOMAIN jobs : Validate(j)
  \/ DayPasses

SpecCleanup == InitCleanup /\ [][NextCleanup]_vars /\ WF_vars(NextCleanup)

\* The queue and its worker past the retention counts: RetentionJobs
\* recordings, each delivered when the one before it has finished, all with
\* an event the handler rejects (the database-aware revision completes such
\* a job, the simulated revision fails it after its retries)
InitRetention ==
  /\ revision \in Revisions
  /\ jobs = [j \in 1..RetentionJobs |-> NoJob]
  /\ InitStore
  /\ call = NoCall
  /\ InitNoTracker

NextRetention ==
  \/ \E j \in DOMAIN jobs : QueueIdle /\ AddRecordingJob(j, RetentionPayloads)
  \/ \E j \in DOMAIN jobs : StartJob(j)
  \/ \E j \in DOMAIN jobs : PromoteDelayed(j)
  \/ \E j \in DOMAIN jobs : Validate(j)

SpecRetention == InitRetention /\ [][NextRetention]_vars

\* The queue and its worker with a termination signal: ShutdownJobs jobs
InitShutdown ==
  /\ revision \in Revisions
  /\ jobs = [j \in 1..ShutdownJobs |-> NoJob]
  /\ InitStore
  /\ call = NoCall
  /\ InitNoTracker

NextShutdown ==
  \/ \E j \in DOMAIN jobs : AddRecordingJob(j, ShutdownPayloads)
  \/ \E j \in DOMAIN jobs : StartJob(j)
  \/ \E j \in DOMAIN jobs : PromoteDelayed(j)
  \/ \E j \in DOMAIN jobs : Validate(j)
  \/ \E j \in DOMAIN jobs : TimerFires(j)
  \/ \E j \in DOMAIN jobs : \E i \in 1..Len(jobs[j].settled) : UploaderSettles(j, i)
  \/ \E j \in DOMAIN jobs : BatchSettles(j)
  \/ \E j \in DOMAIN jobs : FindOneSettles(j)
  \/ \E j \in DOMAIN jobs : UpdateSettles(j)
  \/ SignalArrives
  \/ CloseSettles

SpecShutdown == InitShutdown /\ [][NextShutdown]_vars

\* The meeting controller on its own: TrackerRequests requests over
\* MaxMinutes minutes.  The process has just started, so that its Map is
\* empty; the row of the meeting is as it was created, or as an earlier run
\* of the process left it when both users had joined.
StartedRow ==
  [NoRecording EXCEPT !.joinedUsers = <<"mentor", "mentee">>,
                      !.isMentorJoined = TRUE, !.isMenteeJoined = TRUE,
                      !.meetingStatus = "started", !.maxCount = 2,
                      !.meetingStartBy = "mentor", !.roomStartTime = <<0>>]

InitMeeting ==
  /\ revision = "database"
  /\ jobs = <<>>
  /\ meetings \in [MeetingIds -> {NoRecording, StartedRow}]
  /\ today = Days[1]
  /\ bucket = {}
  /\ zoomRecordings = <<>>
  /\ call = NoCall
  /\ InitTracker(TrackerRequests)

NextMeeting ==
  \/ \E r \in DOMAIN requests : RequestArrives(r)
  \/ \E r \in DOMAIN requests : FindMeetingSettles(r)
  \/ \E r \in DOMAIN requests : TransactionSettles(r)
  \/ MinutePasses

SpecMeeting == InitMeeting /\ [][NextMeeting]_vars

\* The meeting controller serving SerialRequests requests one after the
\* other, from a row as it was created: a request arrives when every earlier
\* one has been answered
SerialArrives(r) ==
  /\ \A i \in DOMAIN requests : requests[i].pc \in {"idle", "done"}
  /\ RequestArrives(r)

InitSerial ==
  /\ revision = "database"
  /\ jobs = <<>>
  /\ meetings = [m \in MeetingIds |-> NoRecording]
  /\ today = Days[1]
  /\ bucket = {}
  /\ zoomRecordings = <<>>
  /\ call = NoCall
  /\ InitTracker(SerialRequests)

NextSerial ==
  \/ \E r \in DOMAIN requests : SerialArrives(r)
  \/ \E r \in DOMAIN requests : FindMeetingSettles(r)
  \/ \E r \in DOMAIN requests : TransactionSettles(r)
  \/ MinutePasses

SpecSerial == InitSerial /\ [][NextSerial]_vars

\* The database-aware worker and the progress endpoint: ProgressJobs jobs,
\* polled while they are processed
InitProgress ==
  /\ revision = "database"
  /\ jobs = [j \in 1..ProgressJobs |-> NoJob]
  /\ InitStore
  /\ call = NoCall
  /\ InitNoTracker

NextProgress ==
  \/ \E j \in DOMAIN jobs : AddRecordingJob(j, Payloads)
  \/ \E j \in DOMAIN jobs : StartJob(j)
  \/ \E j \in DOMAIN jobs : Validate(j)
  \/ \E j \in DOMAIN jobs : \E i \in 1..Len(jobs[j].settled) : UploaderSettles(j, i)
  \/ \E j \in DOMAIN jobs : BatchSettles(j)
  \/ \E j \in DOMAIN jobs : OrchestratorThrows(j)
  \/ \E j \in DOMAIN jobs : FindOneSettles(j)
  \/ \E j \in DOMAIN jobs : UpdateSettles(j)
  \/ GetJobProgressCalled
  \/ GetJobSettles
  \/ GetStateSettles

SpecProgress == InitProgress /\ [][NextProgress]_vars

\* The webhook endpoint before the queue: WebhookJobs jobs, which the
\* database-aware worker takes as they are queued
InitWebhook ==
  /\ revision = "database"
  /\ jobs = [j \in 1..WebhookJobs |-> NoJob]
  /\ InitStore
  /\ call = NoCall
  /\ InitNoTracker

NextWebhook ==
  \/ WebhookArrives(WebhookPayloads)
  \/ \E j \in DOMAIN jobs : WebhookAddSettles(j)
  \/ \E j \in DOMAIN jobs : StartJob(j)
  \/ \E j \in DOMAIN jobs : Validate(j)

SpecWebhook == InitWebhook /\ [][NextWebhook]_vars

\* The keys of a batch of two files, derived once
InitKeys ==
  /\ revision = "database"
  /\ jobs = <<>>
  /\ InitStore
  /\ call = NoCall
  /\ InitNoTracker

NextKeys == CallBatchStreamUpload

SpecKeys == InitKeys /\ [][NextKeys]_vars

\* The functions on file names, each called once with a name of at most
\* MaxNameLen characters
InitNames ==
  /\ revision = "database"
  /\ jobs = <<>>
  /\ InitStore
  /\ call = NoCall
  /\ InitNoTracker

NextNames ==
  \/ CallGetContentType
  \/ CallGenerateS3Key

SpecNames == InitNames /\ [][NextNames]_vars

\* The database-aware revision with the uploader as it is written.  No
\* transfer ends well, so that no job of this specification reaches the
\* lookup of the meeting: every job completes at line 206 of the handler.
InitUploader ==
  /\ revision = "database"
  /\ jobs = [j \in 1..UploaderJobs |-> NoJob]
  /\ InitStore
  /\ call = NoCall
  /\ InitNoTracker

NextUploader ==
  \/ \E j \in DOMAIN jobs : AddRecordingJob(j, UploaderPayloads)
  \/ \E j \in DOMAIN jobs : StartJob(j)
  \/ \E j \in DOMAIN jobs : Validate(j)
  \/ \E j \in DOMAIN jobs : \E i \in 1..Len(jobs[j].settled) : StreamUploadSettles(j, i)
  \/ \E j \in DOMAIN jobs : BatchSettles(j)

SpecUploader == InitUploader /\ [][NextUploader]_vars

\* the database-aware worker and the meeting controller on the same row
InitShared ==
  /\ revision = "database"
  /\ jobs = [j \in 1..SharedJobs |-> NoJob]
  /\ InitStore
  /\ call = NoCall
  /\ InitTracker(MaxRequests)

NextShared ==
  \/ \E j \in DOMAIN jobs : AddRecordingJob(j, SharedPayloads)
  \/ \E j \in DOMAIN jobs : StartJob(j)
  \/ \E j \in DOMAIN jobs : Validate(j)
  \/ \E j \in DOMAIN jobs : \E i \in 1..Len(jobs[j].settled) : UploaderSettles(j, i)
  \/ \E j \in DOMAIN jobs : BatchSettles(j)
  \/ \E j \in DOMAIN jobs : FindOneSettles(j)
  \/ \E j \in DOMAIN jobs : UpdateSettles(j)
  \/ \E r \in DOMAIN requests : RequestArrives(r)
  \/ \E r \in DOMAIN requests : FindMeetingSettles(r)
  \/ \E r \in DOMAIN requests : TransactionSettles(r)

SpecShared == InitShared /\ [][NextShared]_vars

\* the queue and the worker pool: QueueJobs jobs, whose handler ends at its
\* first step
NextQueue ==
  \/ \E j \in DOMAIN jobs : AddRecordingJob(j, QueuePayloads)
  \/ \E j \in DOMAIN jobs : StartJob(j)
  \/ \E j \in DOMAIN jobs : PromoteDelayed(j)
  \/ \E j \in DOMAIN jobs : Validate(j)

SpecQueue == InitQueue /\ [][NextQueue]_vars

---------------------------------------------------------------------------
(* Properties *)

JobIds == DOMAIN jobs

\* the jobs for which batchStreamUpload has returned in the current attempt
Batched == {j \in JobIds : jobs[j].uploadResult # NoUpload}

\* the indices of the files of job j whose transfer threw
FailedIndices(j) ==
  {i \in DOMAIN jobs[j].settled : jobs[j].settled[i] \in UploadErrors}

\* C1: whichever k of the N files of a batch fail, batchStreamUpload returns
\* k entries in failedUploads and N - k in successfulUploads with
\* totalFiles = N, and the failedUploads entries carry the ids of exactly the
\* files that failed, each with the message of its Error.  It has a value to
\* return for every way the transfers of a job's files can end.
C1_BatchCountsEveryFile ==
  /\ \A j \in JobIds :
       jobs[j].pc = "uploading" =>
         LET files == Files(jobs[j].data)
         IN \A outcomes \in [1..Len(files) -> UploaderOutcomes] :
              LET result ==
                    BatchStreamUpload(files, jobs[j].data.session_id, outcomes)
                  failed == {i \in 1..Len(files) : outcomes[i] # "ok"}
              IN /\ Len(result.failedUploads) = Cardinality(failed)
                 /\ Len(result.successfulUploads)
                      = Len(files) - Cardinality(failed)
                 /\ result.totalFiles = Len(files)
  /\ \A j \in Batched :
       LET files == Files(jobs[j].data)
           result == jobs[j].uploadResult
           ko == result.failedUploads
       IN /\ result.totalFiles = Len(files)
          /\ Len(ko) = Cardinality(FailedIndices(j))
          /\ Len(result.successfulUploads)
               = Len(files) - Cardinality(FailedIndices(j))
          /\ Len(result.successfulUploads) + Len(ko) = result.totalFiles
          /\ {ko[k].fileId : k \in DOMAIN ko}
               = {files[i].id : i \in FailedIndices(j)}
          /\ \A k \in DOMAIN ko :
               \E i \in FailedIndices(j) :
                 ko[k].fileId = files[i].id /\ ko[k].error = jobs[j].settled[i]

\* a batch of two files of which both failed has returned, and so has one of
\* which exactly one failed
C1_Witness ==
  /\ \E j \in Batched :
       Len(jobs[j].settled) = 2 /\ Cardinality(FailedIndices(j)) = 2
  /\ \E j \in Batched :
       Len(jobs[j].settled) = 2 /\ Cardinality(FailedIndices(j)) = 1

\* C2, as stated: no exception ever escapes the job handler, whichever
\* revision of the worker runs.
C2_NoExceptionEscapes == \A j \in JobIds : jobs[j].escaped = 0

\* C2, amended: with the database-aware revision no exception escapes the
\* handler: every attempt that has ended has returned a result to the queue
\* and the job is completed, never delayed or failed.
C2_DatabaseHandlerNeverThrows ==
  revision = "database" =>
    \A j \in JobIds :
      /\ jobs[j].escaped = 0
      /\ jobs[j].state \notin {"delayed", "failed"}
      /\ jobs[j].attemptsMade > 0 =>
           jobs[j].state = "completed" /\ jobs[j].returnvalue # NoResult

\* with the database-aware revision, one job has ended in the error result
\* of the outer catch block and another after a rejected batchStreamUpload
C2_Witness ==
  /\ revision = "database"
  /\ \E j \in JobIds :
       jobs[j].state = "completed" /\ "error" \in DOMAIN jobs[j].returnvalue
  /\ \E j \in JobIds : jobs[j].state = "completed" /\ jobs[j].orchestratorThrew

\* the number of successful uploads of job j
Successes(j) == Len(jobs[j].uploadResult.successfulUploads)

\* C3: a meeting row has sessionRecorded = "completed" only by the update of
\* a job that had a successful upload, and a job without a successful upload
\* (all files failed, no file, validation failure, rejected orchestrator)
\* neither looks up nor updates a meeting row.
C3_CompletedNeedsSuccessfulUpload ==
  /\ \A m \in MeetingIds :
       /\ meetings[m].sessionRecorded = "completed" <=> meetings[m].writer # 0
       /\ meetings[m].writer # 0 =>
            /\ Successes(meetings[m].writer) > 0
            /\ jobs[meetings[m].writer].updates > 0
            /\ meetings[m].recordingUrl # <<>>
  /\ \A j \in JobIds :
       Successes(j) = 0 => jobs[j].lookups = 0 /\ jobs[j].updates = 0

\* a job has marked a meeting completed, and a job all of whose files failed
\* has completed
C3_Witness ==
  /\ \E m \in MeetingIds : meetings[m].sessionRecorded = "completed"
  /\ \E j \in Batched :
       /\ jobs[j].state = "completed"
       /\ Successes(j) = 0
       /\ jobs[j].returnvalue.failedFiles > 0

\* C4: when the lookup or the update of the meeting row throws, the job's
\* result has databaseUpdated = false and filesProcessed = the number of
\* successful uploads, and the job is not failed.
C4_DatabaseErrorReportsNotUpdated ==
  \A j \in JobIds :
    (jobs[j].dbErrors > 0 /\ jobs[j].state # "active") =>
      /\ jobs[j].state = "completed"
      /\ jobs[j].returnvalue.filesProcessed = Successes(j)
      /\ jobs[j].returnvalue.databaseUpdated = FALSE

\* the attempts of job j all ended with an Error thrown by the handler
ThrewOnEveryAttempt(j) ==
  jobs[j].attemptsMade > 0 /\ jobs[j].escaped = jobs[j].attemptsMade

\* C5, as stated: a job whose handler throws on every attempt is retried
\* three times, after delays of 2 s, 4 s and 8 s, before it is failed.
C5_ThreeRetries ==
  \A j \in JobIds :
    (jobs[j].state = "failed" /\ ThrewOnEveryAttempt(j)) =>
      jobs[j].delays = <<2000, 4000, 8000>>

\* C5, amended: a job whose handler throws on every attempt is attempted
\* three times in all, that is retried twice, after delays of 2 s and 4 s;
\* the third throw moves it to the failed set, with the reason of the
\* failure, where it stays.
C5_TwoRetriesThenFailed ==
  \A j \in JobIds :
    /\ (jobs[j].state = "failed" /\ ThrewOnEveryAttempt(j)) =>
         /\ jobs[j].attemptsStarted = 3
         /\ jobs[j].escaped = 3
         /\ jobs[j].delays = <<2000, 4000>>
         /\ jobs[j].failedReason # ""
    /\ (jobs[j].state = "delayed" /\ ThrewOnEveryAttempt(j)) =>
         /\ jobs[j].attemptsStarted < 3
         /\ jobs[j].delay = jobs[j].delays[Len(jobs[j].delays)]

\* a job has been moved to the failed set
C5_Witness ==
  \E j \in JobIds : jobs[j].state = "failed" /\ ThrewOnEveryAttempt(j)

\* C6: a job is attempted at most three times, the first attempt counted; it
\* is failed only when its third attempt has thrown; the delay before
\* attempt n + 1 is 2 s * 2^(n - 1).
C6_AtMostThreeAttempts ==
  \A j \in JobIds :
    /\ jobs[j].attemptsStarted <= 3
    /\ jobs[j].state = "failed" =>
         jobs[j].attemptsStarted = 3 /\ jobs[j].escaped = 3
    /\ Len(jobs[j].delays) = jobs[j].escaped - (IF jobs[j].state = "failed" THEN 1 ELSE 0)
    /\ \A n \in DOMAIN jobs[j].delays :
         jobs[j].delays[n] = 2000 * (2 ^ (n - 1))

\* a job is in its third attempt, after delays of 2 s and 4 s
C6_Witness ==
  \E j \in JobIds :
    /\ jobs[j].state = "active"
    /\ jobs[j].attemptsStarted = 3
    /\ jobs[j].delays = <<2000, 4000>>

\* C7: at most two jobs are active at the same time.
C7_AtMostTwoActive == Cardinality(ActiveJobs) <= 2

\* two jobs are active while a third one waits
C7_Witness ==
  /\ Cardinality(ActiveJobs) = 2
  /\ \E j \in JobIds : jobs[j].state = "waiting"

\* C8: when the call of batchStreamUpload is rejected, the handler returns
\* a result with filesProcessed = 0, failedFiles = totalFiles = the number
\* of files and one failedUploads entry per file carrying the message of the
\* Error; nothing escapes, the job is completed, and no meeting row is
\* looked up or written.
C8_RejectedBatchFailsEveryFile ==
  \A j \in JobIds :
    jobs[j].orchestratorThrew =>
      LET files == Files(jobs[j].data)
          result == jobs[j].returnvalue
      IN /\ jobs[j].state = "completed"
         /\ jobs[j].escaped = 0
         /\ result.filesProcessed = 0
         /\ result.failedFiles = Len(files)
         /\ result.totalFiles = Len(files)
         /\ result.successfulUploads = <<>>
         /\ Len(result.failedUploads) = Len(files)
         /\ \A i \in 1..Len(files) :
              /\ result.failedUploads[i].fileId = files[i].id
              /\ result.failedUploads[i].error = result.uploadError
         /\ result.uploadError = "S3 outage"
         /\ jobs[j].lookups = 0
         /\ jobs[j].updates = 0
         /\ \A m \in MeetingIds : meetings[m].writer # j

\* the batch of a job of two files has been rejected
C8_Witness ==
  \E j \in JobIds :
    jobs[j].orchestratorThrew /\ Len(Files(jobs[j].data)) = 2

\* C9, as stated: a rejected orchestrator call reaches the queue as a failed
\* attempt, which starts the retry cycle.
C9_RejectedBatchIsRetried ==
  \A j \in JobIds : jobs[j].orchestratorThrew => jobs[j].escaped > 0

\* C9, amended: neither a rejected orchestrator call nor the failure of
\* files starts the retry cycle: the handler returns a result for both, and
\* the job is completed by its first attempt, without a backoff delay.
C9_UploadFailuresAreNotRetried ==
  \A j \in JobIds :
    (jobs[j].orchestratorThrew \/ jobs[j].uploadResult.failedUploads # <<>>) =>
      /\ jobs[j].state \in {"active", "completed"}
      /\ jobs[j].attemptsStarted = 1
      /\ jobs[j].escaped = 0
      /\ jobs[j].delays = <<>>

\* one job has completed after a rejected orchestrator call, another after
\* the failure of a file
C9_Witness ==
  /\ \E j \in JobIds : jobs[j].orchestratorThrew /\ jobs[j].state = "completed"
  /\ \E j \in JobIds :
       jobs[j].uploadResult.failedUploads # <<>> /\ jobs[j].state = "completed"

\* the payload of job j has the wrong event type, no session id or no token
Rejected(j) ==
  \/ jobs[j].data.event # RecordingCompleted
  \/ jobs[j].data.session_id \in {Undefined, ""}
  \/ jobs[j].data.download_token \in {Undefined, ""}

\* C10: with the database-aware revision, a job with the wrong event type,
\* no session id or no download token gets an error result; no upload is
\* started, no meeting row is looked up or written, and the job is processed
\* once and never retried.
C10_InvalidPayloadIsRejected ==
  revision = "database" =>
    \A j \in JobIds :
      (Rejected(j) /\ jobs[j].state # "none") =>
        /\ jobs[j].state \in {"waiting", "active", "completed"}
        /\ jobs[j].state = "active" => jobs[j].pc = "validate"
        /\ jobs[j].state = "waiting" => jobs[j].attemptsStarted = 0
        /\ jobs[j].attemptsStarted <= 1
        /\ jobs[j].delays = <<>>
        /\ jobs[j].uploadsStarted = 0
        /\ jobs[j].lookups = 0
        /\ jobs[j].updates = 0
        /\ \A m \in MeetingIds : meetings[m].writer # j
        /\ jobs[j].state = "completed" =>
             /\ "error" \in DOMAIN jobs[j].returnvalue
             /\ jobs[j].returnvalue.error = TRUE
             /\ jobs[j].returnvalue.message # ""

\* a job without a token and a job with the wrong event type have been
\* rejected
C10_Witness ==
  /\ revision = "database"
  /\ \E j \in JobIds :
       /\ jobs[j].state = "completed"
       /\ jobs[j].data.download_token = Undefined
  /\ \E j \in JobIds :
       /\ jobs[j].state = "completed"
       /\ jobs[j].data.event # RecordingCompleted

\* the payload of job j is valid and lists no file
ZeroFiles(j) ==
  jobs[j].state # "none" /\ ~Rejected(j) /\ Files(jobs[j].data) = <<>>

\* C11: a job with a valid event type, session id and token whose
\* recording_files list is empty or missing completes, at its first attempt,
\* with a result that is not an error and has filesProcessed = 0; the
\* orchestrator is never called for it, and no meeting row is looked up or
\* written by it.
C11_ZeroFilesCompletes ==
  \A j \in JobIds :
    ZeroFiles(j) =>
      /\ jobs[j].state \in {"waiting", "active", "completed"}
      /\ jobs[j].state = "active" => jobs[j].pc = "validate"
      /\ jobs[j].attemptsStarted <= 1
      /\ jobs[j].escaped = 0
      /\ jobs[j].uploadsStarted = 0
      /\ jobs[j].uploadResult = NoUpload
      /\ ~jobs[j].orchestratorThrew
      /\ jobs[j].lookups = 0
      /\ jobs[j].updates = 0
      /\ \A m \in MeetingIds : meetings[m].writer # j
      /\ jobs[j].state = "completed" =>
           /\ "error" \notin DOMAIN jobs[j].returnvalue
           /\ jobs[j].returnvalue.filesProcessed = 0
           /\ revision = "database" =>
                jobs[j].returnvalue.message = "No files to process"

\* with the database-aware revision, a job with an empty list and a job
\* without the list have completed
C11_Witness ==
  /\ revision = "database"
  /\ \E j \in JobIds :
       /\ ZeroFiles(j) /\ jobs[j].state = "completed"
       /\ jobs[j].data.recording_files = <<>>
  /\ \E j \in JobIds :
       /\ ZeroFiles(j) /\ jobs[j].state = "completed"
       /\ jobs[j].data.recording_files # <<>>

\* the properties of a result that hold the totals of the job
Totals ==
  {"filesProcessed", "failedFiles", "totalFiles", "totalSize", "totalDuration"}

\* the properties of a result that hold a timestamp
Timestamps == {"processingTime", "timestamp"}

\* C12: with the database-aware revision, the result a job returns to the
\* queue has the totals of the job (files processed, files failed, total
\* files, total bytes, total duration) and a timestamp on every path, the
\* zero-file path and the validation-failure path included.
C12_EveryResultHasTotals ==
  revision = "database" =>
    \A j \in JobIds :
      jobs[j].state = "completed" =>
        /\ Totals \subseteq DOMAIN jobs[j].returnvalue
        /\ Timestamps \cap DOMAIN jobs[j].returnvalue # {}

\* the indices of the files of job j whose transfer succeeded
SucceededIndices(j) ==
  {i \in DOMAIN jobs[j].settled : jobs[j].settled[i] = "ok"}

\* the sum of value[i] over the indices of the set
RECURSIVE SumOver(_, _)
SumOver(indices, value) ==
  IF indices = {} THEN 0
  ELSE LET i == CHOOSE x \in indices : TRUE
       IN value[i] + SumOver(indices \ {i}, value)

\* C12, amended: with the database-aware revision every result returned to
\* the queue has a timestamp.  The result of a job that reached the upload
\* stage has all the totals, whether its success list, its failure list or
\* neither is empty: files processed and failed are the numbers of files
\* whose transfer succeeded and failed, total bytes and total duration are
\* the sums over the files that succeeded.  The result of the zero-file path
\* has filesProcessed alone among the totals, and the error result of the
\* validation-failure path has none of them.
C12_UploadedResultHasTotals ==
  revision = "database" =>
    \A j \in JobIds :
      jobs[j].state = "completed" =>
        LET result == jobs[j].returnvalue
            files == Files(jobs[j].data)
        IN /\ Timestamps \cap DOMAIN result # {}
           /\ jobs[j].uploadsStarted > 0 =>
                /\ Totals \subseteq DOMAIN result
                /\ result.filesProcessed + result.failedFiles = result.totalFiles
                /\ result.totalFiles = Len(files)
           /\ j \in Batched =>
                /\ result.filesProcessed = Cardinality(SucceededIndices(j))
                /\ result.failedFiles = Cardinality(FailedIndices(j))
                /\ result.totalSize =
                     SumOver(SucceededIndices(j),
                             [i \in DOMAIN files |-> files[i].file_size])
                /\ result.totalDuration =
                     SumOver(SucceededIndices(j),
                             [i \in DOMAIN files |-> files[i].duration])
           /\ jobs[j].orchestratorThrew =>
                result.totalSize = 0 /\ result.totalDuration = 0
           /\ ZeroFiles(j) => Totals \cap DOMAIN result = {"filesProcessed"}
           /\ Rejected(j) => Totals \cap DOMAIN result = {}

\* with the database-aware revision, one job has completed with both of its
\* files uploaded and another on the zero-file path
C12_Witness ==
  /\ revision = "database"
  /\ \E j \in Batched :
       /\ jobs[j].state = "completed"
       /\ jobs[j].returnvalue.failedUploads = <<>>
       /\ jobs[j].returnvalue.totalSize = 3
  /\ \E j \in JobIds : ZeroFiles(j) /\ jobs[j].state = "completed"

\* the number of entries of the list whose property key has this value
Count(list, key, value) ==
  Cardinality({k \in DOMAIN list : list[k][key] = value})

\* C13: with the database-aware revision no file is dropped: in the result
\* of a job that reached the upload stage, every input file's id is in
\* exactly one entry of successfulUploads (as originalFileId) and none of
\* failedUploads (as fileId), or the reverse; no entry names another id; and
\* filesProcessed + failedFiles = totalFiles = the number of input files.
C13_NoFileDropped ==
  revision = "database" =>
    \A j \in JobIds :
      (jobs[j].state = "completed" /\ jobs[j].uploadsStarted > 0) =>
        LET result == jobs[j].returnvalue
            files == Files(jobs[j].data)
            ok == result.successfulUploads
            ko == result.failedUploads
        IN /\ \A i \in DOMAIN files :
                Count(ok, "originalFileId", files[i].id)
                  + Count(ko, "fileId", files[i].id) = 1
           /\ \A k \in DOMAIN ok :
                \E i \in DOMAIN files : ok[k].originalFileId = files[i].id
           /\ \A k \in DOMAIN ko :
                \E i \in DOMAIN files : ko[k].fileId = files[i].id
           /\ result.filesProcessed = Len(ok)
           /\ result.failedFiles = Len(ko)
           /\ result.filesProcessed + result.failedFiles = result.totalFiles
           /\ result.totalFiles = Len(files)

\* a job of two files has completed with one file uploaded and one failed,
\* and another with both failed
C13_Witness ==
  /\ revision = "database"
  /\ \E j \in JobIds :
       /\ jobs[j].state = "completed" /\ jobs[j].uploadsStarted = 2
       /\ jobs[j].returnvalue.filesProcessed = 1
       /\ jobs[j].returnvalue.failedFiles = 1
       /\ jobs[j].returnvalue.totalFiles = 2
       /\ jobs[j].returnvalue.successfulUploads[1].s3Url # <<>>
  /\ \E j \in JobIds :
       /\ jobs[j].state = "completed" /\ jobs[j].uploadsStarted = 2
       /\ ~jobs[j].orchestratorThrew
       /\ jobs[j].returnvalue.failedFiles = 2

\* C14: when batchStreamUpload is called the transfer of every file is
\* started, whatever becomes of the others.  While the batch runs, a step
\* settles the transfer of one file at most and leaves every other transfer
\* as it was, pending or settled, so that the failure (a timeout is one) of
\* a file neither cancels a sibling nor changes its outcome; and when the
\* batch returns, a file is among the successes exactly when its own
\* transfer succeeded.  TLC checks this for every interleaving of the
\* transfers.
C14_TransfersAreIndependent ==
  [][\A j \in JobIds :
       /\ jobs'[j].pc = "uploading" =>
            /\ Len(jobs'[j].settled) = Len(Files(jobs'[j].data))
            /\ jobs'[j].uploadsStarted = Len(Files(jobs'[j].data))
       /\ (jobs[j].pc = "uploading" /\ jobs'[j].pc = "uploading") =>
            \A i, k \in DOMAIN jobs[j].settled :
              (i # k /\ jobs'[j].settled[i] # jobs[j].settled[i]) =>
                jobs'[j].settled[k] = jobs[j].settled[k]
       /\ (jobs[j].pc = "uploading" /\ jobs'[j].uploadResult # NoUpload) =>
            LET files == Files(jobs[j].data)
                ok == jobs'[j].uploadResult.successfulUploads
            IN /\ jobs'[j].settled = jobs[j].settled
               /\ \A i \in DOMAIN files :
                    jobs[j].settled[i] = "ok"
                      <=> \E k \in DOMAIN ok : ok[k].originalFileId = files[i].id
    ]_vars

\* in one batch the first transfer has failed and the second has succeeded
\* after it or is still pending; in another it is the second that failed
C14_Witness ==
  /\ \E j \in JobIds :
       /\ jobs[j].pc = "uploading"
       /\ jobs[j].settled = <<"Upload failed", "ok">>
  /\ \E j \in JobIds :
       /\ jobs[j].pc = "uploading"
       /\ jobs[j].settled = <<Pending, "Upload failed">>

\* the meeting rows an update has written
Written == {m \in MeetingIds : meetings[m].writer # 0}

\* the successful uploads of the job that wrote row m last
WriterUploads(m) == jobs[meetings[m].writer].uploadResult.successfulUploads

\* upload k of the list is the primary one: the first of the composite type
\* when the list has one of that type, the first of the list otherwise
IsPrimary(uploads, k) ==
  IF \E i \in DOMAIN uploads : uploads[i].recordingType = SharedScreen
  THEN /\ uploads[k].recordingType = SharedScreen
       /\ \A i \in 1..(k - 1) : uploads[i].recordingType # SharedScreen
  ELSE k = 1

\* row m holds the URL of the primary upload of the job that wrote it, and
\* is marked completed
HoldsPrimary(m) ==
  /\ \E k \in DOMAIN WriterUploads(m) :
       /\ IsPrimary(WriterUploads(m), k)
       /\ meetings[m].recordingUrl = WriterUploads(m)[k].s3Url
  /\ meetings[m].sessionRecorded = "completed"

\* C15, as stated: in either revision that reconciles, the row a job has
\* updated holds the destination URL of the first successful upload of type
\* "shared_screen_with_speaker_view", or of the first successful upload when
\* there is none of that type, and sessionRecorded = "completed".
C15_PrimaryIsSharedScreen == \A m \in Written : HoldsPrimary(m)

\* C15, amended: with the database-aware revision (recordingWorker.js) the
\* row a job has updated holds the destination URL of the first successful
\* upload of type "shared_screen_with_speaker_view", wherever it is among the
\* successes, or of the first successful upload when there is none of that
\* type, and sessionRecorded = "completed".
C15_DatabasePrimaryIsSharedScreen ==
  revision = "database" => \A m \in Written : HoldsPrimary(m)

\* with the database-aware revision a row holds the URL of a composite
\* recording that is the second of the successes of its job
C15_Witness ==
  /\ revision = "database"
  /\ \E m \in Written :
       /\ Len(WriterUploads(m)) = 2
       /\ WriterUploads(m)[1].recordingType # SharedScreen
       /\ meetings[m].recordingUrl = WriterUploads(m)[2].s3Url
       /\ meetings[m].recordingUrl # WriterUploads(m)[1].s3Url

\* job j has looked up the row whose id is its session_name and, when the
\* table has no such row, has left the table alone and completes with the
\* count of its successful uploads
LooksUpBySessionName(j) ==
  /\ jobs[j].where = [column |-> "id", value |-> jobs[j].data.session_name]
  /\ jobs[j].data.session_name \notin MeetingIds =>
       /\ jobs[j].pc # "update"
       /\ jobs[j].meeting = Undefined
       /\ jobs[j].updates = 0
       /\ \A m \in MeetingIds : meetings[m].writer # j
       /\ DOMAIN meetings = MeetingIds
       /\ jobs[j].state # "active" =>
            /\ jobs[j].state = "completed"
            /\ jobs[j].returnvalue.filesProcessed = Successes(j)
            /\ Successes(j) > 0

\* C16, as stated: in either revision that reconciles, the lookup of a job
\* is for the row whose id equals session_name; when there is no such row
\* the job completes with filesProcessed = the number of its successful
\* uploads, and no row is created or modified.
C16_LookupBySessionName ==
  \A j \in JobIds : jobs[j].lookups > 0 => LooksUpBySessionName(j)

\* C16, amended: with the database-aware revision (recordingWorker.js) the
\* lookup of a job is for the row whose id equals session_name, not
\* session_id; when there is no such row the job completes with
\* filesProcessed = the number of its successful uploads, and no row is
\* created or modified.
C16_DatabaseLookupBySessionName ==
  revision = "database" =>
    \A j \in JobIds : jobs[j].lookups > 0 => LooksUpBySessionName(j)

\* with the database-aware revision a job whose session_name is the id of
\* no row has completed after its lookup, with both of its files uploaded
C16_Witness ==
  /\ revision = "database"
  /\ \E j \in JobIds :
       /\ jobs[j].data.session_name \notin MeetingIds
       /\ jobs[j].lookups = 1
       /\ jobs[j].dbErrors = 0
       /\ jobs[j].state = "completed"
       /\ jobs[j].returnvalue.filesProcessed = 1

\* the destination URL of the primary upload of job j
PrimaryUrl(j) ==
  LET uploads == jobs[j].uploadResult.successfulUploads
  IN uploads[CHOOSE k \in DOMAIN uploads : IsPrimary(uploads, k)].s3Url

\* C17: with the database-aware revision, a step that changes a meeting row
\* is the update of a job for that meeting with a successful upload, and
\* leaves in recordingUrl the URL of the primary upload of that job alone,
\* whatever the row held before, and "completed" in sessionRecorded; so
\* after any sequence of jobs the row holds the URL of the job that wrote it
\* last, and a job without a successful upload leaves the row as it was.
C17_LastWriterOverwrites ==
  [][revision = "database" =>
       \A m \in MeetingIds :
         meetings'[m] # meetings[m] =>
           LET j == meetings'[m].writer
           IN /\ j \in JobIds
              /\ jobs[j].pc = "update" /\ jobs'[j].state = "completed"
              /\ jobs[j].data.session_name = m
              /\ Successes(j) > 0
              /\ meetings'[m].recordingUrl = PrimaryUrl(j)
              /\ meetings'[m].sessionRecorded = "completed"
    ]_vars

\* with the database-aware revision two jobs for the same meeting have
\* updated its row one after the other, and the row holds the URL of the
\* second, which is not that of the first
C17_Witness ==
  /\ revision = "database"
  /\ \E m \in MeetingIds :
       \E j \in JobIds \ {meetings[m].writer} :
         /\ meetings[m].writer # 0
         /\ jobs[j].updates = 1
         /\ jobs[j].data.session_name = m
         /\ jobs[meetings[m].writer].data.session_name = m
         /\ meetings[m].recordingUrl = PrimaryUrl(meetings[m].writer)
         /\ meetings[m].recordingUrl # PrimaryUrl(j)

\* the columns the worker's update names
WorkerColumns == {"sessionRecorded", "recordingUrl"}

\* C18, as stated: the worker's update of a row is one atomic
\* read-modify-write: while a job is between its read of the row (findOne)
\* and its write (meeting.update), the row is as the job read it.
C18_AtomicReadModifyWrite ==
  \A j \in JobIds :
    jobs[j].pc = "update" => meetings[jobs[j].meeting] = jobs[j].instance

\* C18, amended: the worker reads the row (findOne) and later writes it
\* (meeting.update) in two steps, between which the meeting controller can
\* commit an update of the same row; no update is lost all the same, because
\* the worker's write names sessionRecorded and recordingUrl alone and the
\* controller's names neither: whatever the interleaving, a row a job has
\* written holds that job's recordingUrl and sessionRecorded = "completed",
\* and a row the controller has written holds, in every column of the last
\* committed request's updateObj, the value of that updateObj.
C18_NoLostUpdate ==
  \A m \in MeetingIds :
    /\ meetings[m].writer # 0 =>
         /\ meetings[m].sessionRecorded = "completed"
         /\ meetings[m].recordingUrl = PrimaryUrl(meetings[m].writer)
    /\ meetings[m].writer = 0 =>
         /\ meetings[m].sessionRecorded = Undefined
         /\ meetings[m].recordingUrl = <<>>
    /\ meetings[m].tracked # 0 =>
         LET updateObj == requests[meetings[m].tracked].updateObj
         IN \A column \in DOMAIN updateObj \cap DOMAIN meetings[m] :
              meetings[m][column] = updateObj[column]
    /\ meetings[m].tracked = 0 =>
         \A column \in DOMAIN NoRecording \ (WorkerColumns \cup {"writer"}) :
           meetings[m][column] = NoRecording[column]

\* a job and a request to the controller have both written the row, the
\* request after the job had read it, and the row holds the columns of both
C18_Witness ==
  \E m \in MeetingIds : \E j \in JobIds :
    /\ meetings[m].writer = j
    /\ jobs[j].state = "completed"
    /\ jobs[j].instance.tracked = 0
    /\ meetings[m].tracked # 0
    /\ requests[meetings[m].tracked].kind = "join"
    /\ meetings[m].joinedUsers # <<>>
    /\ meetings[m].sessionRecorded = "completed"

---------------------------------------------------------------------------
(* C19: a re-run with identical inputs on the same day *)

\* the keys the bucket holds
BucketKeys(objects) == {object[1] : object \in objects}

\* job first has run to its end, and job second is the same recording
\* delivered again on the same day
IsRerun(first, second) ==
  /\ first # second
  /\ jobs[first].state = "completed"
  /\ jobs[second].state = "active"
  /\ jobs[first].data = jobs[second].data
  /\ jobs[first].day = jobs[second].day

\* the step in which transfer i of job j ends
TransferEnds(j, i) ==
  /\ i \in DOMAIN jobs[j].settled
  /\ jobs[j].settled[i] = Pending
  /\ jobs'[j].settled[i] # Pending

\* the step in which the meeting.update of job j settles
UpdateEnds(j) == jobs[j].pc = "update" /\ jobs'[j].pc # "update"

\* the re-run's transfer of a file the first run stored leaves the set of
\* keys as it was
RerunKeepsKeys(first, second) ==
  \A i \in DOMAIN jobs[second].settled :
    (/\ TransferEnds(second, i)
     /\ jobs[first].settled[i] = "ok"
     /\ jobs'[second].settled[i] = "ok")
      => BucketKeys(bucket') = BucketKeys(bucket)

\* the re-run's update leaves recordingUrl and sessionRecorded as they were
RerunKeepsRow(first, second) ==
  LET m == jobs[second].meeting
  IN meetings'[m].recordingUrl = meetings[m].recordingUrl
       /\ meetings'[m].sessionRecorded = meetings[m].sessionRecorded

---------------------------------------------------------------------------
(* C20: a transfer whose source and destination both answer well *)

\* the source and the bucket answered the transfer of file i of job j well
AnsweredWell(j, i) ==
  /\ i \in DOMAIN jobs[j].responses
  /\ jobs[j].responses[i] = <<"200", "ok">>

\* the key of file i of job j
KeyOf(j, i) ==
  LET file == Files(jobs[j].data)[i]
  IN <<folderPrefix, jobs[j].day, jobs[j].data.session_id,
       file.recording_type, Sanitize(FileNameOf(file))>>

\* the batch of job j lists file i among its successful uploads, with the
\* key, its URL, the etag and the size
ListedAsSuccessful(j, i) ==
  LET file == Files(jobs[j].data)[i]
  IN \E k \in DOMAIN jobs[j].uploadResult.successfulUploads :
       LET value == jobs[j].uploadResult.successfulUploads[k]
       IN /\ value.originalFileId = file.id
          /\ value.success
          /\ value.s3Key = KeyOf(j, i)
          /\ value.s3Url = getS3Url(KeyOf(j, i))
          /\ value.etag = "etag"
          /\ value.fileSize = file.file_size

\* C20: when the source fetch and the destination write of a transfer both
\* succeed, streamUploadToS3 returns its success result, the bucket holds
\* exactly one object under the key generateS3Key derives, and once the
\* batch has returned the file is among its successfulUploads with that key,
\* its URL, the etag and the size.
C20_SuccessfulTransferIsStored ==
  \A j \in DOMAIN jobs :
    \A i \in DOMAIN jobs[j].responses :
      AnsweredWell(j, i) =>
        /\ jobs[j].settled[i] = "ok"
        /\ Cardinality({object \in bucket : object[1] = KeyOf(j, i)}) = 1
        /\ jobs[j].state = "completed" => ListedAsSuccessful(j, i)

---------------------------------------------------------------------------
(* C21: the content type of a file name *)

\* the content type the table of lines 129-146 gives the lower-cased
\* extension of a name
TableContentType(fileName) ==
  LET extension == Join(SplitPop(toLowerCase(fileName)))
  IN IF extension \in DOMAIN contentTypes THEN contentTypes[extension]
     ELSE "application/octet-stream"

\* C21: every call of getContentType returns, never throws, and what it
\* returns is the content type the table assigns to the lower-cased
\* extension of its argument, "application/octet-stream" when the table has
\* no such extension.
C21_ContentTypeFromTable ==
  call.name = "getContentType" =>
    /\ ~call.result.thrown
    /\ call.result.value = TableContentType(call.fileName)

---------------------------------------------------------------------------
(* C22: the file-name segment of the destination key *)

\* the file-name segment of a key
NameSegment(s3Key) == s3Key[5]

\* C22: the file-name segment of the key derived for a file name has the
\* length of the name, holds "_" wherever the name holds a character
\* outside [A-Za-z0-9.-], and holds the name's own character everywhere
\* else; deriving it never throws.
C22_SegmentIsSanitizedName ==
  call.name = "generateS3Key" =>
    LET segment == NameSegment(call.s3Key)
    IN /\ Len(segment) = Len(call.fileName)
       /\ \A i \in 1..Len(call.fileName) :
            /\ call.fileName[i] \in SafeChars => segment[i] = call.fileName[i]
            /\ call.fileName[i] \notin SafeChars => segment[i] = "_"

\* a key has been derived for a name with a character the key keeps after
\* two it replaces
C22_Witness ==
  /\ call.name = "generateS3Key"
  /\ call.fileName = <<"/", " ", ".">>
  /\ NameSegment(call.s3Key) = <<"_", "_", ".">>

---------------------------------------------------------------------------
(* C23: addRecordingJob returns once the job is in the queue *)

\* C23: when addRecordingJob has returned a job handle, the queue holds a
\* job under the handle's id with the data that was handed over (the write
\* was made before the return); when the write to the queue failed, the
\* call has thrown and returned no handle.
C23_ReturnedJobIsPersisted ==
  call.name = "addRecordingJob" =>
    /\ ~call.thrown =>
         /\ call.job # <<>>
         /\ jobs[call.job[1]].state # "none"
         /\ jobs[call.job[1]].data = call.webhookData
    /\ ~call.persisted => call.thrown /\ call.job = <<>>

\* one call has failed to write and has thrown, after an earlier call
\* returned the handle of a job that has since been delivered to the worker
C23_Witness ==
  /\ call.name = "addRecordingJob"
  /\ call.thrown
  /\ ~call.persisted
  /\ jobs[1].state = "completed"
  /\ jobs[2].state = "none"

---------------------------------------------------------------------------
(* C24: the counts of getQueueStats *)

\* the step in which getQueueStats returns its counts
StatsReturn ==
  /\ call.name = "getQueueStats"
  /\ call'.name = "getQueueStats"
  /\ call.stats = <<>>
  /\ call'.stats # <<>>

\* the step in which the read of the jobs in state resolves
StatsRead(state) ==
  /\ call.name = "getQueueStats"
  /\ call'.name = "getQueueStats"
  /\ state \notin DOMAIN call.lengths
  /\ state \in DOMAIN call'.lengths

\* C24 as the claim states it: when getQueueStats returns its counts, total
\* is the sum of the four counts and each count is the number of jobs that
\* are in its state at that moment.  The four lists are read one after the
\* other, each behind an await, and the worker moves jobs in between: a job
\* read as waiting can be read again as active.
C24_CountsAreCurrent ==
  [][StatsReturn =>
       LET stats == call'.stats[1]
       IN /\ stats.total = stats.waiting + stats.active + stats.completed
                             + stats.failed
          /\ stats.waiting = Cardinality(GetJobs("waiting"))
          /\ stats.active = Cardinality(GetJobs("active"))
          /\ stats.completed = Cardinality(GetJobs("completed"))
          /\ stats.failed = Cardinality(GetJobs("failed"))]_vars

\* C24: when getQueueStats returns its counts, total is the sum of the four
\* counts, and each count is the number of jobs that were in its state when
\* the list of that state was read.
C24_CountsAreAsRead ==
  [][/\ \A state \in {"waiting", "active", "completed", "failed"} :
          StatsRead(state) =>
            call'.lengths[state] = Cardinality(GetJobs(state))
     /\ StatsReturn =>
          LET stats == call'.stats[1]
          IN /\ stats.total = stats.waiting + stats.active + stats.completed
                                + stats.failed
             /\ stats.waiting = call'.lengths["waiting"]
             /\ stats.active = call'.lengths["active"]
             /\ stats.completed = call'.lengths["completed"]
             /\ stats.failed = call'.lengths["failed"]
             /\ \A state \in DOMAIN call.lengths :
                  call'.lengths[state] = call.lengths[state]]_vars

\* getQueueStats has returned counts that no moment of the queue had: the
\* one job of the queue was read as waiting and then as active
C24_Witness ==
  /\ call.name = "getQueueStats"
  /\ call.stats # <<>>
  /\ call.stats[1].waiting = 1
  /\ call.stats[1].active = 1
  /\ call.stats[1].total = 2
  /\ Cardinality({j \in DOMAIN jobs : jobs[j].state # "none"}) = 1

---------------------------------------------------------------------------
(* C25: finished jobs older than 24 hours *)

\* job j finished more than 24 hours ago and the queue still holds it
OldFinished(j) ==
  /\ jobs[j].state \in {"completed", "failed"}
  /\ clock - jobs[j].finishedOn[1] > grace

\* C25: a cleanup runs again and again, so that every completed or failed
\* job that finished more than 24 hours ago is eventually removed from the
\* queue, however few finished jobs the queue holds.
C25_OldJobsAreRemoved ==
  \A j \in 1..CleanupJobs : OldFinished(j) ~> ~OldFinished(j)

---------------------------------------------------------------------------
(* C26: the retention counts *)

\* C26, the counts: the queue never holds more than 100 completed jobs nor
\* more than 50 failed jobs
RetentionCounts ==
  /\ Cardinality(GetJobs("completed")) <= 100
  /\ Cardinality(GetJobs("failed")) <= 50

\* job i, as it was before the step, finished before job k, as it is after
RemovedBeforeKept(i, k) ==
  \/ jobs[i].finishedOn[1] < jobs'[k].finishedOn[1]
  \/ jobs[i].finishedOn[1] = jobs'[k].finishedOn[1] /\ i < k

\* C26: in every state the queue holds at most 100 completed jobs and at
\* most 50 failed jobs, and a job the queue removes was a completed or a
\* failed job that finished before every job its set still holds afterwards.
C26_RetentionKeepsNewest ==
  [][/\ RetentionCounts
     /\ RetentionCounts'
     /\ \A i \in DOMAIN jobs :
          (jobs[i].state # "removed" /\ jobs'[i].state = "removed") =>
            /\ jobs[i].state \in {"completed", "failed"}
            /\ \A k \in DOMAIN jobs :
                 jobs'[k].state = jobs[i].state => RemovedBeforeKept(i, k)]_vars

\* the 101st job has completed: the queue has removed the first and holds
\* the hundred after it
C26_Witness ==
  /\ jobs[1].state = "removed"
  /\ \A j \in 2..101 : jobs[j].state = "completed"

---------------------------------------------------------------------------
(* C27: shutdown on SIGTERM or SIGINT *)

\* a termination signal has arrived
Closing == call.name = "shutdown"

\* C27: once a termination signal has arrived the worker starts no job, and
\* when the process exits no job is active: every job that was active when
\* the signal arrived has had its handler return or throw.
C27_ShutdownIsGraceful ==
  [][/\ Closing =>
          \A j \in DOMAIN jobs :
            jobs'[j].state = "active" => jobs[j].state = "active"
     /\ (call'.name = "shutdown" /\ call'.exited) =>
          /\ \A j \in DOMAIN jobs : jobs'[j].state # "active"
          /\ \A j \in call'.active :
               jobs'[j].attemptsMade = jobs'[j].attemptsStarted]_vars

\* the process has exited after a signal that found a job active and a job
\* waiting: the first has completed, the second was never started
C27_Witness ==
  /\ call.name = "shutdown"
  /\ call.exited
  /\ call.active = {1}
  /\ jobs[1].state = "completed"
  /\ jobs[2].state = "waiting"
  /\ jobs[2].attemptsStarted = 0

---------------------------------------------------------------------------
(* C28: the last active user leaves *)

\* the step in which the update of request r commits
Commits(r) ==
  /\ requests[r].pc = "update"
  /\ requests'[r].pc = "done"
  /\ requests'[r].status = 200

\* the meeting took place, by the row the handler read
TookPlace(meeting) ==
  \/ meeting.maxCount >= 2
  \/ meeting.meetingStatus = "started" /\ meeting.roomStartTime # <<>>

\* C28: when the update of a handleUserLeft that left the active list empty
\* commits, the row is completed (meetingStatus "completed", isCompleted
\* set, roomEndTime set, and duration the minutes from roomStartTime to
\* roomEndTime when the row read had a roomStartTime) if the row the handler
\* read had maxCount >= 2 or was "started" with a roomStartTime; otherwise
\* the row is reset: meetingStatus "pending", isCompleted unset, and
\* roomStartTime, roomEndTime, duration, meetingStartBy and joinedUsers
\* cleared.
C28_LastLeaveCompletesOrResets ==
  [][\A r \in DOMAIN requests :
       (Commits(r) /\ requests[r].kind = "leave" /\ requests[r].emptied) =>
         LET read == requests[r].meeting
             row == meetings'[requests[r].meetingId]
         IN IF TookPlace(read)
            THEN /\ row.meetingStatus = "completed"
                 /\ row.isCompleted
                 /\ row.roomEndTime # <<>>
                 /\ read.roomStartTime # <<>> =>
                      /\ row.duration # <<>>
                      /\ row.duration[1] =
                           row.roomEndTime[1] - read.roomStartTime[1]
            ELSE /\ row.meetingStatus = "pending"
                 /\ ~row.isCompleted
                 /\ row.roomStartTime = <<>>
                 /\ row.roomEndTime = <<>>
                 /\ row.duration = <<>>
                 /\ row.meetingStartBy = Undefined
                 /\ row.joinedUsers = <<>>]_vars

\* a meeting that took place has been completed by its last leave, one
\* minute after it started
C28_Witness ==
  \E r \in DOMAIN requests :
    /\ requests[r].kind = "leave"
    /\ requests[r].emptied
    /\ requests[r].status = 200
    /\ TookPlace(requests[r].meeting)
    /\ meetings[requests[r].meetingId].tracked = r
    /\ meetings[requests[r].meetingId].meetingStatus = "completed"
    /\ meetings[requests[r].meetingId].duration = <<1>>

---------------------------------------------------------------------------
(* C29: two joins that interleave *)

\* request r is a handleUserJoined that has answered 200
Joined(r) ==
  /\ requests[r].kind = "join"
  /\ requests[r].pc = "done"
  /\ requests[r].status = 200

\* the joins r1 and r2 of different users to one meeting interleaved: each
\* read the row before the other wrote it
Interleaved(r1, r2) ==
  /\ r1 # r2
  /\ Joined(r1) /\ Joined(r2)
  /\ requests[r1].meetingId = requests[r2].meetingId
  /\ requests[r1].userId # requests[r2].userId
  /\ requests[r1].meeting.tracked # r2
  /\ requests[r2].meeting.tracked # r1

\* C29: when two handleUserJoined requests of different users to one
\* meeting have both read the row before either wrote it and have both
\* answered, the joinedUsers of the row holds both users and its maxCount
\* is 2.
C29_InterleavedJoinsLoseNoUpdate ==
  \A r1, r2 \in DOMAIN requests :
    Interleaved(r1, r2) =>
      LET row == meetings[requests[r1].meetingId]
      IN /\ Includes(row.joinedUsers, requests[r1].userId)
         /\ Includes(row.joinedUsers, requests[r2].userId)
         /\ row.maxCount = 2

---------------------------------------------------------------------------
(* C30: the first user joins *)

\* C30: when a handleUserJoined that read the row as it was created, with
\* the default meetingStatus, and made its user the single active user has
\* committed its update, the meetingStatus of the row is "waiting".
C30_FirstJoinIsWaiting ==
  \A r \in DOMAIN requests :
    ( /\ Joined(r)
      /\ requests[r].meeting = NoRecording
      /\ requests[r].updateObj.currentParticipants = 1
      /\ meetings[requests[r].meetingId].tracked = r ) =>
        meetings[requests[r].meetingId].meetingStatus = "waiting"

---------------------------------------------------------------------------
(* C31: when a meeting starts *)

\* the step in which findMeetingById returns the row to request r and the
\* handler goes on to its update
Finds(r) ==
  /\ requests[r].pc = "find"
  /\ requests'[r].pc = "update"

\* the row of meeting m becomes "started" in this step
Starts(m) ==
  /\ meetings[m].meetingStatus # "started"
  /\ meetings'[m].meetingStatus = "started"

---------------------------------------------------------------------------
(* C32: a completed meeting *)

\* C32: once the meetingStatus of a row is "completed", no step changes it
\* to another status or writes another roomStartTime.
C32_CompletedIsFinal ==
  [][\A m \in MeetingIds :
       meetings[m].meetingStatus = "completed" =>
         /\ meetings'[m].meetingStatus = "completed"
         /\ meetings'[m].roomStartTime = meetings[m].roomStartTime]_vars

---------------------------------------------------------------------------
(* C33: who may end a meeting *)

\* request r takes a step
Steps(r) == requests'[r] # requests[r]

\* C33: with the requests served one after the other, a handleMeetingEnd of
\* a user who is not the mentor of the meeting is answered 403 when
\* findMeetingById has returned the row (500 when it has thrown), and the
\* step leaves every row and every active list as they are; a
\* handleMeetingEnd whose update commits is the mentor's, and its step leaves
\* the row "completed" with isCompleted set and the meeting without an
\* active list.
C33_OnlyMentorEnds ==
  [][\A r \in DOMAIN requests :
       LET m == requests[r].meetingId
       IN /\ ( /\ Steps(r)
               /\ requests[r].kind = "end"
               /\ requests[r].pc = "find"
               /\ requests[r].userId # meetings[m].mentorId ) =>
                 /\ requests'[r].pc = "done"
                 /\ requests'[r].status \in {403, 500}
                 /\ meetings' = meetings
                 /\ activeMeetings' = activeMeetings
          /\ (Commits(r) /\ requests[r].kind = "end") =>
                 /\ requests[r].userId = meetings[m].mentorId
                 /\ meetings'[m].meetingStatus = "completed"
                 /\ meetings'[m].isCompleted
                 /\ activeMeetings'[m] = <<>>]_vars

\* the mentee, who is active in the meeting, has asked to end it and has
\* been answered 403: the active list still holds the mentee and the row is
\* as the join left it
C33_Witness ==
  /\ Joined(1)
  /\ requests[1].userId = "mentee"
  /\ requests[2].kind = "end"
  /\ requests[2].userId = "mentee"
  /\ requests[2].status = 403
  /\ UserArray("M1") = <<"mentee">>
  /\ meetings["M1"].tracked = 1
  /\ meetings["M1"].meetingStatus = "pending"

---------------------------------------------------------------------------
(* C34: a database update that fails *)

\* the list of an entry of activeMeetings, empty when there is no entry
ListOf(entry) == IF entry = <<>> THEN <<>> ELSE entry[1]

\* C34: with the requests served one after the other, when
\* updateMeetingTransactional throws and the handler answers 500, the active
\* list of the meeting is the list the handler found when it was called.
C34_FailedUpdateKeepsList ==
  [][\A r \in DOMAIN requests :
       ( /\ requests[r].pc = "update"
         /\ requests'[r].pc = "done"
         /\ requests'[r].status = 500 ) =>
           UserArray(requests[r].meetingId)' = ListOf(requests[r].entry)]_vars

---------------------------------------------------------------------------
(* C35: one attempt, and a completed job *)

\* the progress endpoint has answered for a job it found
Answered == call.name = "progress" /\ call.pc = "done" /\ call.code = 200

\* C35: with the database-aware worker a job is handed to the handler at
\* most once; it is never delayed or failed, and once its attempt has ended
\* it is completed with a result, also when the result is the error result
\* of a rejected payload and when every file failed.  The progress endpoint
\* answers "SUCCESS" for every job it read as completed, and so for every
\* job whose result it shows.
C35_OneAttemptThenCompleted ==
  /\ \A j \in JobIds :
       /\ jobs[j].attemptsStarted <= 1
       /\ jobs[j].state \in {"none", "waiting", "active", "completed"}
       /\ jobs[j].delays = <<>>
       /\ jobs[j].attemptsMade > 0 =>
            /\ jobs[j].attemptsMade = 1
            /\ jobs[j].state = "completed"
            /\ jobs[j].returnvalue # NoResult
  /\ Answered =>
       /\ call.state = "completed" => call.status = "SUCCESS"
       /\ call.returnValue # NoResult => call.status = "SUCCESS"

\* the progress endpoint has answered "SUCCESS" for a job whose payload the
\* handler rejected
C35_Witness ==
  /\ Answered
  /\ call.status = "SUCCESS"
  /\ Rejected(call.jobId)
  /\ "error" \in DOMAIN call.returnValue
  /\ call.returnValue.error = TRUE
  /\ jobs[call.jobId].attemptsStarted = 1

---------------------------------------------------------------------------
(* C36: what the webhook endpoint answers *)

\* the webhook endpoint has answered its last delivery
Delivered == call.name = "webhook" /\ call.pc = "done"

\* C36: when the webhook endpoint has answered a delivery with the message
\* "Recording queued for processing", a job of that delivery is in the
\* queue; when it has answered a delivery of another event, the delivery
\* has added no job and no entry of the recordings log.
C36_QueuedMeansEnqueued ==
  Delivered =>
    /\ call.message = "Recording queued for processing" =>
         /\ call.job # <<>>
         /\ jobs[call.job[1]].state # "none"
         /\ jobs[call.job[1]].data = call.body
    /\ call.body.event # RecordingCompleted =>
         /\ call.job = <<>>
         /\ Len(zoomRecordings) = call.logged
         /\ \A j \in JobIds :
              jobs[j].state # "none" => jobs[j].data.event = RecordingCompleted

---------------------------------------------------------------------------
(* C37: databaseUpdated *)

\* C37: with the database-aware revision, a job whose result reports
\* databaseUpdated = TRUE has written recordingUrl on a meeting row; in
\* particular the result of a job whose lookup found no row reports
\* databaseUpdated = FALSE.
C37_DatabaseUpdatedMeansWritten ==
  revision = "database" =>
    \A j \in JobIds :
      ( /\ jobs[j].state = "completed"
        /\ "databaseUpdated" \in DOMAIN jobs[j].returnvalue
        /\ jobs[j].returnvalue.databaseUpdated ) =>
          /\ jobs[j].updates > 0
          /\ jobs[j].meeting # Undefined

---------------------------------------------------------------------------
(* C38: the keys of one batch *)

\* C38: the objects of two files of one batch that have distinct ids have
\* distinct keys, whatever the names and the recording types of the files.
C38_DistinctIdsDistinctKeys ==
  call.name = "batchStreamUpload" =>
    \A i, k \in DOMAIN call.files :
      call.files[i].id # call.files[k].id => call.s3Keys[i] # call.s3Keys[k]

---------------------------------------------------------------------------
(* C39: the counts cover the queue *)

\* the jobs that were added to the queue and have not been removed from it
RetainedJobs == {j \in JobIds : jobs[j].state # "none" /\ jobs[j] # Removed}

\* what getQueueStats would return if its four lists were read now
StatsNow ==
  QueueStats([state \in {"waiting", "active", "completed", "failed"} |->
                Cardinality(GetJobs(state))])

\* C39: in every state every job that is in the queue is in exactly one of
\* the four lists getQueueStats reads, a job that waits out its backoff
\* delay included, so that the total of counts read now is the number of
\* jobs in the queue.
C39_CountsCoverTheQueue ==
  /\ \A j \in RetainedJobs :
       Cardinality({state \in {"waiting", "active", "completed", "failed"} :
                      j \in GetJobs(state)}) = 1
  /\ StatsNow.total = Cardinality(RetainedJobs)

====
